---- MODULE Spec2Model ----
(***************************************************************************)
(* Vehicle search of carbitrages-backend.                                  *)
(*                                                                         *)
(* Two engines are modelled side by side:                                  *)
(*   - the in-memory engine of utils/seedData (src/unnamed/part_000):      *)
(*     searchVehicles, getVehicleById, getSearchSuggestions,               *)
(*     getFeaturedVehicles over the module-level array vehicleDatabase;    *)
(*   - the persisted search of controllers/vehicleController.ts, behind    *)
(*     the validators of routes/vehicle.ts, over the Vehicle collection.   *)
(*                                                                         *)
(* A JavaScript string is a sequence of one-character strings, so that     *)
(* toLowerCase, includes, split, trim and parseInt are computed and not    *)
(* assumed. An optional value (undefined or a value) is a sequence of      *)
(* length 0 or 1.                                                          *)
(***************************************************************************)
EXTENDS Integers, Sequences, FiniteSets, TLC

VARIABLES
    mockVehicles,       \* the imported seed array (never written)
    vehicleDatabase,    \* let vehicleDatabase = [...mockVehicles]
    vehicleCollection,  \* the documents of the Vehicle collection, in natural order
    call,               \* the operation that ran last, with its arguments
    ret,                \* what it returned (or the HTTP response it sent)
    storeWrites,        \* how many writes the Vehicle collection has taken
    users,              \* the documents of the User collection, by _id
    redis,              \* the entries of the Redis cache, by key prefix
    now,                \* the clock, in seconds
    ticks,              \* how many times the clock has been moved
    tokens,             \* the JWTs handed out in responses
    nonce,              \* how many random tokens crypto.randomBytes has drawn
    history,            \* reset tokens sent and spent, users logged out
    response,           \* the last response of an account handler
    inflight            \* the account request each client has in progress

vehicleVars ==
    <<mockVehicles, vehicleDatabase, vehicleCollection, call, ret, storeWrites>>

authVars ==
    <<users, redis, now, ticks, tokens, nonce, history, response, inflight>>

vars == <<vehicleVars, authVars>>

----------------------------------------------------------------------------
(* Bounds of the model.                                                    *)

\* Longest seeded collection.
MaxDb == 3
\* Most fields present at once in one request.
MaxPresent == 2
\* Most writes the Vehicle collection takes in one behaviour.
MaxWrites == 1

----------------------------------------------------------------------------
(* Optional values and JavaScript truthiness.                              *)

None == <<>>
Some(v) == <<v>>
IsSome(o) == o # <<>>
Val(o) == o[1]

\* if (x) for an optional number: undefined, 0 are falsy.
TruthyNum(o) == IsSome(o) /\ Val(o) # 0
\* if (x) for an optional string: undefined, '' are falsy.
TruthyStr(o) == IsSome(o) /\ Val(o) # <<>>

Min2(a, b) == IF a <= b THEN a ELSE b
Max2(a, b) == IF a >= b THEN a ELSE b

\* Math.ceil(a / b) for an integer a and b > 0.
MathCeilDiv(a, b) == IF a >= 0 THEN (a + b - 1) \div b ELSE -((-a) \div b)

----------------------------------------------------------------------------
(* Strings.                                                                *)

UpperChars == <<"A","B","C","D","E","F","G","H","I","J","K","L","M",
                "N","O","P","Q","R","S","T","U","V","W","X","Y","Z">>
LowerChars == <<"a","b","c","d","e","f","g","h","i","j","k","l","m",
                "n","o","p","q","r","s","t","u","v","w","x","y","z">>

\* One character of String.prototype.toLowerCase.
LowerTable == [c \in {UpperChars[i] : i \in 1..26} |->
                 LowerChars[CHOOSE i \in 1..26 : UpperChars[i] = c]]
LowerChar(c) == IF c \in DOMAIN LowerTable THEN LowerTable[c] ELSE c

\* String.prototype.toLowerCase
toLowerCase(s) == [i \in 1..Len(s) |-> LowerChar(s[i])]

\* String.prototype.includes: sub occurs in s as a contiguous run.
includes(s, sub) ==
    \E k \in 0..(Len(s) - Len(sub)) :
        \A i \in 1..Len(sub) : s[k + i] = sub[i]

\* String.prototype.trim (the model's only white space is " ").
RECURSIVE TrimLeft(_)
TrimLeft(s) == IF s # <<>> /\ Head(s) = " " THEN TrimLeft(Tail(s)) ELSE s
RECURSIVE TrimRight(_)
TrimRight(s) ==
    IF s # <<>> /\ s[Len(s)] = " " THEN TrimRight(SubSeq(s, 1, Len(s) - 1)) ELSE s
trim(s) == TrimRight(TrimLeft(s))

\* String.prototype.split(sep): the pieces between the separators, in order.
RECURSIVE SplitFrom(_, _, _, _)
SplitFrom(s, sep, i, cur) ==
    IF i > Len(s) THEN <<cur>>
    ELSE IF s[i] = sep THEN <<cur>> \o SplitFrom(s, sep, i + 1, <<>>)
    ELSE SplitFrom(s, sep, i + 1, Append(cur, s[i]))
split(s, sep) == SplitFrom(s, sep, 1, <<>>)

\* new RegExp(p, 'i').test(s), for a pattern without metacharacters:
\* p occurs in s, ignoring case (the empty pattern matches every string).
RegExpTestI(p, s) == includes(toLowerCase(s), toLowerCase(p))

Digits == <<"0","1","2","3","4","5","6","7","8","9">>
IsDigit(c) == \E i \in 1..10 : Digits[i] = c
DigitVal(c) == (CHOOSE i \in 1..10 : Digits[i] = c) - 1

RECURSIVE DigitsVal(_)
DigitsVal(s) ==
    IF s = <<>> THEN 0 ELSE 10 * DigitsVal(SubSeq(s, 1, Len(s) - 1)) + DigitVal(s[Len(s)])

\* validator.js isInt without bounds: /^[-+]?[0-9]+$/
IsIntString(s) ==
    LET body == IF s # <<>> /\ Head(s) \in {"-", "+"} THEN Tail(s) ELSE s
    IN  body # <<>> /\ \A i \in 1..Len(body) : IsDigit(body[i])

\* parseInt(s) of a string isInt accepts.
parseInt(s) ==
    IF Head(s) = "-" THEN -DigitsVal(Tail(s))
    ELSE IF Head(s) = "+" THEN DigitsVal(Tail(s))
    ELSE DigitsVal(s)

\* The decimal digits of n >= 0: what a client writes for ?page=n.
RECURSIVE IntString(_)
IntString(n) ==
    IF n < 10 THEN <<Digits[n + 1]>> ELSE Append(IntString(n \div 10), Digits[(n % 10) + 1])

\* The characters of the model in UTF-16 code unit order.
CharOrder ==
    <<" ", "+", ",", "-">> \o Digits \o UpperChars \o LowerChars
CharCodes == [c \in {CharOrder[i] : i \in 1..Len(CharOrder)} |->
                CHOOSE i \in 1..Len(CharOrder) : CharOrder[i] = c]
CharCode(c) == CharCodes[c]

\* s < t as Array.prototype.sort() without a comparator, and MongoDB's
\* simple binary collation, order strings: by code unit, a prefix first.
StrLess(s, t) ==
    \E k \in 1..(Len(t)) :
        /\ \A i \in 1..(k - 1) : i <= Len(s) /\ s[i] = t[i]
        /\ \/ k = Len(s) + 1
           \/ k <= Len(s) /\ CharCode(s[k]) < CharCode(t[k])

\* The strings of a set in ascending order: [...new Set(xs)].sort()
SortStrings(S) ==
    [k \in 1..Cardinality(S) |->
        CHOOSE x \in S : Cardinality({y \in S : StrLess(y, x)}) = k - 1]

----------------------------------------------------------------------------
(* The listings the collections are seeded from.                           *)

sToyota == <<"T","o","y","o","t","a">>
sTesla == <<"T","e","s","l","a">>
sHonda == <<"H","o","n","d","a">>
sCamry == <<"C","a","m","r","y">>
sRAV4 == <<"R","A","V","4">>
sModel3 == <<"M","o","d","e","l"," ","3">>
sCivic == <<"C","i","v","i","c">>
sSedan == <<"s","e","d","a","n">>
sSUV == <<"S","U","V">>
sNew == <<"n","e","w">>
sUsed == <<"u","s","e","d">>
sCertified == <<"c","e","r","t","i","f","i","e","d">>
sGasoline == <<"g","a","s","o","l","i","n","e">>
sHybrid == <<"h","y","b","r","i","d">>
sElectric == <<"e","l","e","c","t","r","i","c">>
sAutomatic == <<"a","u","t","o","m","a","t","i","c">>
sManual == <<"m","a","n","u","a","l">>

sAustin == <<"A","u","s","t","i","n">>
sReno == <<"R","e","n","o">>
sTX == <<"T","X">>
sNV == <<"N","V">>

\* A listing: the attributes the two engines read. The in-memory engine
\* reads neither location, isActive nor createdAt.
Listing(id, make, model, bodyType, condition, price, year, mileage,
        fuelType, transmission, arbitrageScore, city, state, isActive,
        createdAt) ==
    [id |-> id, make |-> make, model |-> model, bodyType |-> bodyType,
     condition |-> condition, price |-> price, year |-> year,
     mileage |-> mileage, fuelType |-> fuelType, transmission |-> transmission,
     arbitrageScore |-> arbitrageScore,
     location |-> [city |-> city, state |-> state],
     isActive |-> isActive, createdAt |-> createdAt]

\* Two listings tie on price (1, 2), two on arbitrageScore (1, 4), two on
\* year (1, 3); one is inactive (4).
Catalogue ==
    { Listing(1, sToyota, sCamry, sSedan, sNew, 25000, 2022, 10000,
              sGasoline, sAutomatic, 70, sAustin, sTX, TRUE, 3),
      Listing(2, sToyota, sRAV4, sSUV, sUsed, 25000, 2020, 40000,
              sHybrid, sAutomatic, 90, sReno, sNV, TRUE, 1),
      Listing(3, sTesla, sModel3, sSedan, sCertified, 35000, 2022, 20000,
              sElectric, sAutomatic, 80, sAustin, sTX, TRUE, 4),
      Listing(4, sHonda, sCivic, sSedan, sUsed, 20000, 2019, 60000,
              sGasoline, sManual, 70, sReno, sNV, FALSE, 2) }

\* Every sequence of at most MaxDb distinct catalogue listings.
Seeds ==
    UNION { { s \in [1..n -> Catalogue] :
                \A i, j \in 1..n : i # j => s[i] # s[j] } : n \in 0..MaxDb }

----------------------------------------------------------------------------
(* Array helpers.                                                          *)

\* Array.prototype.slice(start, end), negative indices counting from the end.
slice(a, start, end) ==
    LET n == Len(a)
        from == IF start < 0 THEN Max2(n + start, 0) ELSE Min2(start, n)
        to == IF end < 0 THEN Max2(n + end, 0) ELSE Min2(end, n)
    IN  IF from >= to THEN <<>> ELSE SubSeq(a, from + 1, to)

\* The listings of a sequence, as a bag: listing -> number of occurrences.
Occurrences(a, v) == Cardinality({i \in 1..Len(a) : a[i] = v})

----------------------------------------------------------------------------
(* In-memory engine: the filters of searchVehicles, in the code's order.   *)

\* The make filter with an absent make matching nothing.
FilterByMakeAbsentMatchesNothing(results, filters) ==
    IF TruthyStr(filters.make)
    THEN SelectSeq(results, LAMBDA v :
            includes(toLowerCase(v.make), toLowerCase(Val(filters.make))))
    ELSE <<>>

\* The make filter comparing letter case as written.
FilterByMakeCaseSensitive(results, filters) ==
    IF TruthyStr(filters.make)
    THEN SelectSeq(results, LAMBDA v : includes(v.make, Val(filters.make)))
    ELSE results

FilterByMake(results, filters) ==
    IF TruthyStr(filters.make)
    THEN SelectSeq(results, LAMBDA v :
            includes(toLowerCase(v.make), toLowerCase(Val(filters.make))))
    ELSE results

FilterByModel(results, filters) ==
    IF TruthyStr(filters.model)
    THEN SelectSeq(results, LAMBDA v :
            includes(toLowerCase(v.model), toLowerCase(Val(filters.model))))
    ELSE results

FilterByBodyType(results, filters) ==
    IF TruthyStr(filters.bodyType)
    THEN SelectSeq(results, LAMBDA v : v.bodyType = Val(filters.bodyType))
    ELSE results

FilterByCondition(results, filters) ==
    IF TruthyStr(filters.condition)
    THEN SelectSeq(results, LAMBDA v : v.condition = Val(filters.condition))
    ELSE results

\* The minPrice filter leaving out a listing priced exactly at the bound.
FilterByMinPriceExclusive(results, filters) ==
    IF TruthyNum(filters.minPrice)
    THEN SelectSeq(results, LAMBDA v : v.price > Val(filters.minPrice))
    ELSE results

FilterByMinPrice(results, filters) ==
    IF TruthyNum(filters.minPrice)
    THEN SelectSeq(results, LAMBDA v : v.price >= Val(filters.minPrice))
    ELSE results

\* The maxPrice filter as the else branch of the minPrice filter
\* (if (minPrice) ... else if (maxPrice) ...): skipped when minPrice is given.
FilterByMaxPriceElseIf(results, filters) ==
    IF TruthyNum(filters.minPrice) THEN results
    ELSE IF TruthyNum(filters.maxPrice)
    THEN SelectSeq(results, LAMBDA v : v.price <= Val(filters.maxPrice))
    ELSE results

FilterByMaxPrice(results, filters) ==
    IF TruthyNum(filters.maxPrice)
    THEN SelectSeq(results, LAMBDA v : v.price <= Val(filters.maxPrice))
    ELSE results

FilterByMinYear(results, filters) ==
    IF TruthyNum(filters.minYear)
    THEN SelectSeq(results, LAMBDA v : v.year >= Val(filters.minYear))
    ELSE results

FilterByMaxYear(results, filters) ==
    IF TruthyNum(filters.maxYear)
    THEN SelectSeq(results, LAMBDA v : v.year <= Val(filters.maxYear))
    ELSE results

FilterByMaxMileage(results, filters) ==
    IF TruthyNum(filters.maxMileage)
    THEN SelectSeq(results, LAMBDA v : v.mileage <= Val(filters.maxMileage))
    ELSE results

FilterByFuelType(results, filters) ==
    IF TruthyStr(filters.fuelType)
    THEN SelectSeq(results, LAMBDA v : v.fuelType = Val(filters.fuelType))
    ELSE results

FilterByTransmission(results, filters) ==
    IF TruthyStr(filters.transmission)
    THEN SelectSeq(results, LAMBDA v : v.transmission = Val(filters.transmission))
    ELSE results

\* let results = [...vehicleDatabase]; then every filter in turn.
ApplyFilters(database, filters) ==
    FilterByTransmission(
     FilterByFuelType(
      FilterByMaxMileage(
       FilterByMaxYear(
        FilterByMinYear(
         FilterByMaxPrice(
          FilterByMinPrice(
           FilterByCondition(
            FilterByBodyType(
             FilterByModel(
              FilterByMake(database, filters), filters), filters), filters),
           filters), filters), filters), filters), filters), filters), filters)

----------------------------------------------------------------------------
(* In-memory engine: sorting.                                              *)

\* The sort key defaulting to the price.
SortByOfDefaultPrice(filters) ==
    IF IsSome(filters.sortBy) /\ Val(filters.sortBy) # ""
    THEN Val(filters.sortBy) ELSE "price"

\* const sortBy = filters.sortBy || 'arbitrageScore'
SortByOf(filters) ==
    IF IsSome(filters.sortBy) /\ Val(filters.sortBy) # ""
    THEN Val(filters.sortBy) ELSE "arbitrageScore"

\* const sortOrder = filters.sortOrder || 'desc'
SortOrderOf(filters) ==
    IF IsSome(filters.sortOrder) /\ Val(filters.sortOrder) # ""
    THEN Val(filters.sortOrder) ELSE "desc"

\* The switch of the comparator: the attribute the key names.
SortValue(v, sortBy) ==
    CASE sortBy = "price" -> v.price
      [] sortBy = "year" -> v.year
      [] sortBy = "mileage" -> v.mileage
      [] OTHER -> v.arbitrageScore

\* The comparator ascending whatever the direction asked for.
CompareAscending(a, b, sortBy, sortOrder) ==
    SortValue(a, sortBy) - SortValue(b, sortBy)

\* return sortOrder === 'asc' ? aValue - bValue : bValue - aValue
Compare(a, b, sortBy, sortOrder) ==
    IF sortOrder = "asc"
    THEN SortValue(a, sortBy) - SortValue(b, sortBy)
    ELSE SortValue(b, sortBy) - SortValue(a, sortBy)

\* Array.prototype.sort(cmp) is stable: with a comparator that is a total
\* preorder, a[i] lands after the elements that compare less than it and
\* after the equal ones that stood before it. cmp[j][i] is the comparator's
\* value on (a[j], a[i]).
StableSort(a, cmp) ==
    LET n == Len(a)
        rank(i) == 1 + Cardinality({j \in 1..n :
                        \/ cmp[j][i] < 0
                        \/ cmp[j][i] = 0 /\ j < i})
    IN  [k \in 1..n |-> a[CHOOSE i \in 1..n : rank(i) = k]]

\* The results left in the order the filters produced them.
SortResultsUnsorted(results, sortBy, sortOrder) == results

\* results.sort((a, b) => ...)
SortResults(results, sortBy, sortOrder) ==
    StableSort(results,
        [j \in 1..Len(results) |-> [i \in 1..Len(results) |->
            Compare(results[j], results[i], sortBy, sortOrder)]])

----------------------------------------------------------------------------
(* In-memory engine: pagination.                                           *)

DefaultPage == 1
DefaultLimit == 12

\* const page = filters.page || 1
PageOf(filters) == IF TruthyNum(filters.page) THEN Val(filters.page) ELSE DefaultPage

\* const limit = filters.limit || 12
LimitOf(filters) == IF TruthyNum(filters.limit) THEN Val(filters.limit) ELSE DefaultLimit

\* The start index with the page taken as zero-based.
StartIndexZeroBased(page, limit) == page * limit

\* const startIndex = (page - 1) * limit
StartIndex(page, limit) == (page - 1) * limit

\* const endIndex = startIndex + limit
EndIndex(page, limit) == StartIndex(page, limit) + limit

\* The page with an out-of-range page number clamped to the last page.
PaginatedResultsClamped(results, page, limit) ==
    IF (page - 1) * limit >= Len(results) /\ Len(results) > 0
    THEN slice(results, ((Len(results) - 1) \div limit) * limit, Len(results))
    ELSE slice(results, (page - 1) * limit, (page - 1) * limit + limit)

\* results.slice(startIndex, endIndex)
PaginatedResults(results, page, limit) ==
    slice(results, StartIndex(page, limit), EndIndex(page, limit))

\* totalPages rounded down and one added.
TotalPagesFloorPlusOne(total, limit) == (total \div limit) + 1

\* totalPages: Math.ceil(results.length / limit)
TotalPages(total, limit) == MathCeilDiv(total, limit)

\* totalResults: results.length
TotalResults(results) == Len(results)

\* hasNextPage: endIndex < results.length
HasNextPage(results, page, limit) == EndIndex(page, limit) < Len(results)

\* The filtered, sorted working collection of one call.
SortedResults(database, filters) ==
    SortResults(ApplyFilters(database, filters), SortByOf(filters), SortOrderOf(filters))

\* [...new Set(vehicleDatabase.map(v => v.field))].sort()
DistinctSorted(database, field) ==
    SortStrings({database[i][field] : i \in 1..Len(database)})

\* A JavaScript number that may be infinite: <<0, n>> is n, <<1, 0>> is
\* Infinity and <<-1, 0>> is -Infinity.
Finite(n) == <<0, n>>
Infinity == <<1, 0>>
MinusInfinity == <<-1, 0>>

\* a <= b on such numbers.
NumberLeq(a, b) == a[1] < b[1] \/ (a[1] = b[1] /\ (a[1] # 0 \/ a[2] <= b[2]))

\* Math.min(...xs) and Math.max(...xs): Infinity and -Infinity of no numbers.
MathMin(xs) ==
    IF xs = {} THEN Infinity ELSE Finite(CHOOSE x \in xs : \A y \in xs : x <= y)
MathMax(xs) ==
    IF xs = {} THEN MinusInfinity ELSE Finite(CHOOSE x \in xs : \A y \in xs : x >= y)

\* The filters record of searchVehicles: computed over vehicleDatabase, not
\* over the filtered results.
SearchFacets(database) ==
    LET prices == {database[i].price : i \in 1..Len(database)}
        years == {database[i].year : i \in 1..Len(database)}
    IN  [makes |-> DistinctSorted(database, "make"),
         models |-> DistinctSorted(database, "model"),
         bodyTypes |-> DistinctSorted(database, "bodyType"),
         conditions |-> DistinctSorted(database, "condition"),
         fuelTypes |-> DistinctSorted(database, "fuelType"),
         transmissions |-> DistinctSorted(database, "transmission"),
         priceRange |-> [min |-> MathMin(prices), max |-> MathMax(prices)],
         yearRange |-> [min |-> MathMin(years), max |-> MathMax(years)]]

\* The pagination record with totalResults counted on the page, not on the
\* filtered collection.
PaginationCountingPage(results, page, limit) ==
    [currentPage |-> page,
     totalPages |-> TotalPages(Len(results), limit),
     totalResults |-> Len(PaginatedResults(results, page, limit)),
     hasNextPage |-> HasNextPage(results, page, limit),
     hasPrevPage |-> page > 1]

\* The pagination record of the response.
Pagination(results, page, limit) ==
    [currentPage |-> page,
     totalPages |-> TotalPages(Len(results), limit),
     totalResults |-> TotalResults(results),
     hasNextPage |-> HasNextPage(results, page, limit),
     hasPrevPage |-> page > 1]

\* searchVehicles(filters): the vehicles page, its pagination record and the
\* filter options.
searchVehicles(database, filters) ==
    LET results == SortedResults(database, filters)
        page == PageOf(filters)
        limit == LimitOf(filters)
    IN  [vehicles |-> PaginatedResults(results, page, limit),
         pagination |-> Pagination(results, page, limit),
         filters |-> SearchFacets(database)]

----------------------------------------------------------------------------
(* In-memory engine: the other operations.                                 *)

\* getVehicleById(id): vehicleDatabase.find(v => v.id === id), or undefined.
getVehicleById(database, id) ==
    LET hits == {i \in 1..Len(database) : database[i].id = id}
    IN  IF hits = {} THEN None
        ELSE Some(database[CHOOSE i \in hits : \A j \in hits : i <= j])

DefaultFeaturedLimit == 6

\* vehicleDatabase.sort((a, b) => b.arbitrageScore - a.arbitrageScore):
\* Array.prototype.sort sorts the array it is called on, in place.
FeaturedOrder(database) == SortResults(database, "arbitrageScore", "desc")

\* What getFeaturedVehicles leaves in vehicleDatabase.
DatabaseAfterFeatured(database) == FeaturedOrder(database)

\* getFeaturedVehicles(limit = 6): the default applies to undefined only.
getFeaturedVehicles(database, limit) ==
    slice(FeaturedOrder(database), 0,
          IF IsSome(limit) THEN Val(limit) ELSE DefaultFeaturedLimit)

sToyotaCamry == sToyota \o <<" ">> \o sCamry
sTeslaModel3 == sTesla \o <<" ">> \o sModel3
sToyotaRAV4 == sToyota \o <<" ">> \o sRAV4

\* let searchSuggestionsDatabase = [...mockSearchSuggestions]
searchSuggestionsDatabase ==
    << [value |-> toLowerCase(sToyota), label |-> sToyota, count |-> 2],
       [value |-> toLowerCase(sCamry), label |-> sToyotaCamry, count |-> 1],
       [value |-> toLowerCase(sTesla), label |-> sTesla, count |-> 1],
       [value |-> toLowerCase(sModel3), label |-> sTeslaModel3, count |-> 1],
       [value |-> toLowerCase(sRAV4), label |-> sToyotaRAV4, count |-> 3] >>

MaxSuggestions == 8

\* getSearchSuggestions with the guard moved to queries of no characters.
getSearchSuggestionsFromOne(query) ==
    IF ~TruthyStr(query) \/ Len(Val(query)) < 1 THEN <<>>
    ELSE slice(SelectSeq(searchSuggestionsDatabase, LAMBDA suggestion :
                \/ includes(toLowerCase(suggestion.label), toLowerCase(Val(query)))
                \/ includes(toLowerCase(suggestion.value), toLowerCase(Val(query)))),
               0, MaxSuggestions)

\* getSearchSuggestions(query)
getSearchSuggestions(query) ==
    IF ~TruthyStr(query) \/ Len(Val(query)) < 2 THEN <<>>
    ELSE slice(
            SelectSeq(searchSuggestionsDatabase, LAMBDA suggestion :
                \/ includes(toLowerCase(suggestion.label), toLowerCase(Val(query)))
                \/ includes(toLowerCase(suggestion.value), toLowerCase(Val(query)))),
            0, MaxSuggestions)

----------------------------------------------------------------------------
(* Persisted search: the validators of GET /search (routes/vehicle.ts).     *)

CurrentYear == 2026
MaxPageSize == 50
MinYear == 1900

\* isInt({min, max}) on a query string value.
IsIntIn(s, min, max) == IsIntString(s) /\ parseInt(s) >= min /\ parseInt(s) <= max
IsIntMin(s, min) == IsIntString(s) /\ parseInt(s) >= min

\* The validation chains, each .optional() (an absent field passes):
\* validateRequest rejects the request when one fails.
ValidSearchQuery(q) ==
    /\ IsSome(q.query) => Len(trim(Val(q.query))) >= 1 /\ Len(trim(Val(q.query))) <= 100
    /\ IsSome(q.yearMin) => IsIntIn(Val(q.yearMin), MinYear, CurrentYear + 1)
    /\ IsSome(q.yearMax) => IsIntIn(Val(q.yearMax), MinYear, CurrentYear + 1)
    /\ IsSome(q.priceMin) => IsIntMin(Val(q.priceMin), 0)
    /\ IsSome(q.priceMax) => IsIntMin(Val(q.priceMax), 0)
    /\ IsSome(q.mileageMax) => IsIntMin(Val(q.mileageMax), 0)
    /\ IsSome(q.sortBy) =>
            Val(q.sortBy) \in {"price", "year", "mileage", "arbitrage", "createdAt"}
    /\ IsSome(q.sortOrder) => Val(q.sortOrder) \in {"asc", "desc"}
    /\ IsSome(q.page) => IsIntMin(Val(q.page), 1)
    /\ IsSome(q.limit) => IsIntIn(Val(q.limit), 1, MaxPageSize)

TrimmedFields ==
    {"query", "make", "model", "condition", "bodyType", "fuelType",
     "transmission", "city", "state"}

\* The .trim() sanitizers rewrite the string fields of req.query.
SanitizeSearchQuery(q) ==
    [f \in DOMAIN q |->
        IF f \in TrimmedFields /\ IsSome(q[f]) THEN Some(trim(Val(q[f]))) ELSE q[f]]

----------------------------------------------------------------------------
(* Persisted search: the filter expression and how the store matches it.    *)

\* x.split(',').map(m => new RegExp(m.trim(), 'i'))
RegExpList(s) == [i \in 1..Len(split(s, ",")) |-> trim(split(s, ",")[i])]

\* { $in: [regex, ...] }: the value matches one of the patterns.
MatchesRegExpIn(value, patterns) ==
    \E i \in 1..Len(patterns) : RegExpTestI(patterns[i], value)

\* { $in: [string, ...] }: the value equals one of the strings.
MatchesIn(value, values) == \E i \in 1..Len(values) : values[i] = value

\* Make and model filters.
MakeFilter(q) == IF TruthyStr(q.make) THEN Some(RegExpList(Val(q.make))) ELSE None
ModelFilter(q) == IF TruthyStr(q.model) THEN Some(RegExpList(Val(q.model))) ELSE None

\* A range { $gte, $lte } built when either bound is truthy; a query value
\* is a string, so every non-empty one is truthy, "0" included.
RangeFilter(lo, hi) ==
    IF TruthyStr(lo) \/ TruthyStr(hi)
    THEN Some([gte |-> IF TruthyStr(lo) THEN Some(parseInt(Val(lo))) ELSE None,
               lte |-> IF TruthyStr(hi) THEN Some(parseInt(Val(hi))) ELSE None])
    ELSE None

\* condition.split(',').map(c => c.trim())
ConditionFilter(q) ==
    IF TruthyStr(q.condition)
    THEN Some([i \in 1..Len(split(Val(q.condition), ",")) |->
                    trim(split(Val(q.condition), ",")[i])])
    ELSE None

BodyTypeFilter(q) ==
    IF TruthyStr(q.bodyType) THEN Some(RegExpList(Val(q.bodyType))) ELSE None
FuelTypeFilter(q) ==
    IF TruthyStr(q.fuelType) THEN Some(RegExpList(Val(q.fuelType))) ELSE None
TransmissionFilter(q) ==
    IF TruthyStr(q.transmission) THEN Some(RegExpList(Val(q.transmission))) ELSE None

\* const filters: any = { isActive: true }; then one entry per present field.
BuildFilters(q) ==
    [isActive |-> TRUE,
     text |-> IF TruthyStr(q.query) THEN q.query ELSE None,
     make |-> MakeFilter(q),
     model |-> ModelFilter(q),
     year |-> RangeFilter(q.yearMin, q.yearMax),
     price |-> RangeFilter(q.priceMin, q.priceMax),
     mileage |-> RangeFilter(None, q.mileageMax),
     condition |-> ConditionFilter(q),
     bodyType |-> BodyTypeFilter(q),
     fuelType |-> FuelTypeFilter(q),
     transmission |-> TransmissionFilter(q),
     city |-> IF TruthyStr(q.city) THEN q.city ELSE None,
     state |-> IF TruthyStr(q.state) THEN q.state ELSE None]

InRange(x, range) ==
    /\ IsSome(range.gte) => x >= Val(range.gte)
    /\ IsSome(range.lte) => x <= Val(range.lte)

\* $text: { $search }: a document matches when one of the search terms is a
\* word of a text-indexed field, ignoring case (stemming and stop words are
\* not modelled; the catalogue's descriptions hold no words).
TextWords(doc) ==
    LET fields == <<doc.make, doc.model, doc.location.city, doc.location.state>>
    IN  UNION { {split(toLowerCase(fields[i]), " ")[j] :
                    j \in 1..Len(split(fields[i], " "))} : i \in 1..Len(fields) }
MatchesText(doc, search) ==
    \E j \in 1..Len(split(search, " ")) :
        /\ split(search, " ")[j] # <<>>
        /\ toLowerCase(split(search, " ")[j]) \in TextWords(doc)

\* A document satisfies the filter expression: the conjunction of its entries.
MatchesFilters(doc, filters) ==
    /\ doc.isActive = filters.isActive
    /\ IsSome(filters.text) => MatchesText(doc, Val(filters.text))
    /\ IsSome(filters.make) => MatchesRegExpIn(doc.make, Val(filters.make))
    /\ IsSome(filters.model) => MatchesRegExpIn(doc.model, Val(filters.model))
    /\ IsSome(filters.year) => InRange(doc.year, Val(filters.year))
    /\ IsSome(filters.price) => InRange(doc.price, Val(filters.price))
    /\ IsSome(filters.mileage) => InRange(doc.mileage, Val(filters.mileage))
    /\ IsSome(filters.condition) => MatchesIn(doc.condition, Val(filters.condition))
    /\ IsSome(filters.bodyType) => MatchesRegExpIn(doc.bodyType, Val(filters.bodyType))
    /\ IsSome(filters.fuelType) => MatchesRegExpIn(doc.fuelType, Val(filters.fuelType))
    /\ IsSome(filters.transmission) =>
            MatchesRegExpIn(doc.transmission, Val(filters.transmission))
    /\ IsSome(filters.city) => RegExpTestI(Val(filters.city), doc.location.city)
    /\ IsSome(filters.state) => RegExpTestI(Val(filters.state), doc.location.state)

\* Vehicle.find(filters), in natural order.
Find(collection, filters) ==
    SelectSeq(collection, LAMBDA doc : MatchesFilters(doc, filters))

\* Vehicle.countDocuments(filters)
CountDocuments(collection, filters) == Len(Find(collection, filters))

----------------------------------------------------------------------------
(* Persisted search: sort, skip, limit.                                     *)

\* sortBy = 'createdAt', sortOrder = 'desc': the defaults of the destructuring.
QuerySortBy(q) == IF IsSome(q.sortBy) THEN Val(q.sortBy) ELSE "createdAt"
QuerySortOrder(q) == IF IsSome(q.sortOrder) THEN Val(q.sortOrder) ELSE "desc"

\* sortOrder === 'desc' ? -1 : 1
Direction(sortOrder) == IF sortOrder = "desc" THEN -1 ELSE 1

\* sortOptions: the keys in insertion order, each with its direction.
SortOptions(sortBy, sortOrder) ==
    LET primary ==
            CASE sortBy = "price" -> <<"price", Direction(sortOrder)>>
              [] sortBy = "year" -> <<"year", Direction(sortOrder)>>
              [] sortBy = "mileage" -> <<"mileage", Direction(sortOrder)>>
              [] sortBy = "arbitrage" -> <<"arbitrageScore", Direction(sortOrder)>>
              [] OTHER -> <<"createdAt", Direction(sortOrder)>>
    IN  IF sortBy # "createdAt" /\ primary[1] # "createdAt"
        THEN <<primary, <<"createdAt", -1>> >>
        ELSE IF sortBy # "createdAt"
        THEN << <<"createdAt", -1>> >>
        ELSE <<primary>>

\* The order .sort(sortOptions) gives two documents: the first key on which
\* they differ decides.
CompareDocs(a, b, sortOptions) ==
    LET differ == {i \in 1..Len(sortOptions) :
                        a[sortOptions[i][1]] # b[sortOptions[i][1]]}
    IN  IF differ = {} THEN 0
        ELSE LET k == CHOOSE i \in differ : \A j \in differ : i <= j
                 f == sortOptions[k][1]
             IN  IF a[f] < b[f] THEN -sortOptions[k][2] ELSE sortOptions[k][2]

\* .sort(sortOptions): documents equal on every key keep their natural order.
SortDocs(docs, sortOptions) ==
    StableSort(docs,
        [j \in 1..Len(docs) |-> [i \in 1..Len(docs) |->
            CompareDocs(docs[j], docs[i], sortOptions)]])

\* const pageNum = parseInt(page.toString()), page = 1 by default.
PageNum(q) == IF IsSome(q.page) THEN parseInt(Val(q.page)) ELSE DefaultPage

\* const limitNum = parseInt(limit.toString()), limit = 12 by default.
LimitNum(q) == IF IsSome(q.limit) THEN parseInt(Val(q.limit)) ELSE DefaultLimit

\* const skip = (pageNum - 1) * limitNum
Skip(pageNum, limitNum) == (pageNum - 1) * limitNum

\* .skip(skip).limit(limitNum), for skip >= 0 and limitNum >= 1.
SkipLimit(docs, skip, limitNum) ==
    SubSeq(docs, skip + 1, Min2(skip + limitNum, Len(docs)))

\* The matching documents in the requested order, before skip and limit.
SortedDocs(collection, q) ==
    SortDocs(Find(collection, BuildFilters(q)),
             SortOptions(QuerySortBy(q), QuerySortOrder(q)))

----------------------------------------------------------------------------
(* Persisted search: the filter options of the current search.             *)

\* Vehicle.aggregate([{ $match }, { $group: { _id: '$field', count } },
\* { $sort: { _id: 1 } }]), mapped to { value, label, count }.
FacetOf(docs, field) ==
    LET labels == SortStrings({docs[i][field] : i \in 1..Len(docs)})
    IN  [k \in 1..Len(labels) |->
            [value |-> toLowerCase(labels[k]),
             label |-> labels[k],
             count |-> Cardinality({i \in 1..Len(docs) : docs[i][field] = labels[k]})]]

MaxFacetPrice == 100000
MinFacetYear == 2000

\* getSearchFilterOptions(baseFilters)
getSearchFilterOptions(collection, baseFilters) ==
    LET docs == Find(collection, baseFilters)
    IN  [makes |-> FacetOf(docs, "make"),
         models |-> FacetOf(docs, "model"),
         bodyTypes |-> FacetOf(docs, "bodyType"),
         fuelTypes |-> FacetOf(docs, "fuelType"),
         transmissions |-> FacetOf(docs, "transmission"),
         priceRange |-> [min |-> 0, max |-> MaxFacetPrice],
         yearRange |-> [min |-> MinFacetYear, max |-> CurrentYear]]

\* this.distinct(field).sort().map(x => ({ value, label, count: 0 })): the
\* distinct values of a field over the whole collection, each with count 0.
DistinctOptions(collection, field) ==
    LET labels == SortStrings({collection[i][field] : i \in 1..Len(collection)})
    IN  [k \in 1..Len(labels) |->
            [value |-> toLowerCase(labels[k]), label |-> labels[k], count |-> 0]]

\* this.aggregate([{ $group: { _id: null, min: { $min }, max: { $max } } }]):
\* one document, or none when the collection is empty.
MinMaxAggregate(collection, field) ==
    LET xs == {collection[i][field] : i \in 1..Len(collection)}
    IN  IF xs = {} THEN <<>>
        ELSE <<[_id |-> "null",
                min |-> CHOOSE x \in xs : \A y \in xs : x <= y,
                max |-> CHOOSE x \in xs : \A y \in xs : x >= y]>>

\* Vehicle.getFilterOptions(): the global filter options.
getFilterOptions(collection) ==
    LET priceRange == MinMaxAggregate(collection, "price")
        yearRange == MinMaxAggregate(collection, "year")
    IN  [makes |-> DistinctOptions(collection, "make"),
         bodyTypes |-> DistinctOptions(collection, "bodyType"),
         fuelTypes |-> DistinctOptions(collection, "fuelType"),
         transmissions |-> DistinctOptions(collection, "transmission"),
         priceRange |-> IF priceRange # <<>> THEN priceRange[1]
                        ELSE [min |-> 0, max |-> MaxFacetPrice],
         yearRange |-> IF yearRange # <<>> THEN yearRange[1]
                       ELSE [min |-> MinFacetYear, max |-> CurrentYear]]

\* What the catch block of getSearchFilterOptions returns when an aggregate
\* fails.
EmptyFilterOptions ==
    [makes |-> <<>>, models |-> <<>>, bodyTypes |-> <<>>, fuelTypes |-> <<>>,
     transmissions |-> <<>>,
     priceRange |-> [min |-> 0, max |-> MaxFacetPrice],
     yearRange |-> [min |-> MinFacetYear, max |-> CurrentYear]]

\* total: Vehicle.countDocuments(filters)
Total(collection, q) == CountDocuments(collection, BuildFilters(q))

\* totalPages: Math.ceil(total / limitNum)
TotalPagesOf(total, limitNum) == MathCeilDiv(total, limitNum)

\* The body of the 200 response of GET /search.
SearchResponse(collection, q) ==
    [vehicles |-> SkipLimit(SortedDocs(collection, q),
                            Skip(PageNum(q), LimitNum(q)), LimitNum(q)),
     total |-> Total(collection, q),
     page |-> PageNum(q),
     limit |-> LimitNum(q),
     totalPages |-> TotalPagesOf(Total(collection, q), LimitNum(q)),
     filters |-> getSearchFilterOptions(collection, BuildFilters(q))]

----------------------------------------------------------------------------
(* Persisted suggestions: GET /suggestions.                                 *)

MinSuggestionQuery == 2
MaxSuggestionQuery == 50
MaxGroups == 5

\* query('q').isString().trim().isLength({ min: 2, max: 50 })
ValidSuggestionQuery(q) ==
    /\ IsSome(q)
    /\ Len(trim(Val(q))) >= MinSuggestionQuery
    /\ Len(trim(Val(q))) <= MaxSuggestionQuery

\* The .trim() sanitizer rewrites req.query.q.
SanitizeSuggestionQuery(q) == IF IsSome(q) THEN Some(trim(Val(q))) ELSE q

\* if (!q || typeof q !== 'string' || q.length < 2) return res.json([])
TooShort(q) == ~TruthyStr(q) \/ Len(Val(q)) < MinSuggestionQuery

\* String.prototype.indexOf: where sub first occurs in s, from 0, or -1.
indexOf(s, sub) ==
    LET hits == {k \in 0..(Len(s) - Len(sub)) :
                    \A i \in 1..Len(sub) : s[k + i] = sub[i]}
    IN  IF hits = {} THEN -1 ELSE CHOOSE k \in hits : \A j \in hits : k <= j

\* The active documents a $match stage lets through.
ActiveDocs(collection) == SelectSeq(collection, LAMBDA d : d.isActive)

\* { $match: { make: regex } }, { $group: { _id: '$make', count } }
MakeGroups(collection, regex) ==
    LET docs == SelectSeq(ActiveDocs(collection), LAMBDA d : RegExpTestI(regex, d.make))
    IN  {[_id |-> docs[i].make,
          count |-> Cardinality({j \in 1..Len(docs) : docs[j].make = docs[i].make})] :
         i \in 1..Len(docs)}

\* { $match: { model: regex } }, { $group: { _id: { make, model }, count } }
ModelGroups(collection, regex) ==
    LET docs == SelectSeq(ActiveDocs(collection), LAMBDA d : RegExpTestI(regex, d.model))
    IN  {[_id |-> [make |-> docs[i].make, model |-> docs[i].model],
          count |-> Cardinality({j \in 1..Len(docs) :
                        /\ docs[j].make = docs[i].make
                        /\ docs[j].model = docs[i].model})] :
         i \in 1..Len(docs)}

\* { $match: { $or: [city, state] } }, { $group: { _id: { city, state }, count } }
LocationGroups(collection, regex) ==
    LET docs == SelectSeq(ActiveDocs(collection), LAMBDA d :
                    \/ RegExpTestI(regex, d.location.city)
                    \/ RegExpTestI(regex, d.location.state))
    IN  {[_id |-> docs[i].location,
          count |-> Cardinality({j \in 1..Len(docs) :
                        docs[j].location = docs[i].location})] :
         i \in 1..Len(docs)}

\* { $sort: { count: -1 } }, { $limit: 5 }: every order the store may give
\* groups of equal count, cut to the first five.
SortLimit(groups) ==
    LET n == Cardinality(groups)
        orders == {s \in [1..n -> groups] :
                    /\ \A i, j \in 1..n : i # j => s[i] # s[j]
                    /\ \A i, j \in 1..n : i < j => s[i].count >= s[j].count}
    IN  {SubSeq(s, 1, Min2(MaxGroups, n)) : s \in orders}

\* const suggestions = [...makeResults.map, ...modelResults.map,
\* ...locationResults.map]
SuggestionsOf(makeResults, modelResults, locationResults) ==
    [i \in 1..Len(makeResults) |->
        [type |-> "make", value |-> makeResults[i]._id,
         label |-> makeResults[i]._id, count |-> makeResults[i].count]]
    \o [i \in 1..Len(modelResults) |->
        [type |-> "model", value |-> modelResults[i]._id.model,
         label |-> modelResults[i]._id.make \o <<" ">> \o modelResults[i]._id.model,
         count |-> modelResults[i].count]]
    \o [i \in 1..Len(locationResults) |->
        [type |-> "location",
         value |-> locationResults[i]._id.city \o <<",", " ">>
                        \o locationResults[i]._id.state,
         label |-> locationResults[i]._id.city \o <<",", " ">>
                        \o locationResults[i]._id.state,
         count |-> locationResults[i].count]]

\* The comparator of suggestions.sort: relevance, then count descending.
CompareSuggestions(a, b, query) ==
    LET aRelevance == indexOf(toLowerCase(a.label), toLowerCase(query))
        bRelevance == indexOf(toLowerCase(b.label), toLowerCase(query))
    IN  IF aRelevance # bRelevance THEN aRelevance - bRelevance
        ELSE b.count - a.count

\* suggestions.sort(...); res.json(suggestions.slice(0, 8))
RankedSuggestions(suggestions, query) ==
    slice(StableSort(suggestions,
            [j \in 1..Len(suggestions) |-> [i \in 1..Len(suggestions) |->
                CompareSuggestions(suggestions[j], suggestions[i], query)]]),
          0, MaxSuggestions)

\* The bodies the handler may answer with when its aggregates succeed.
SuggestionResponses(collection, q) ==
    IF TooShort(q) THEN {<<>>}
    ELSE {RankedSuggestions(SuggestionsOf(makeResults, modelResults, locationResults),
                            trim(Val(q))) :
            makeResults \in SortLimit(MakeGroups(collection, trim(Val(q)))),
            modelResults \in SortLimit(ModelGroups(collection, trim(Val(q)))),
            locationResults \in SortLimit(LocationGroups(collection, trim(Val(q))))}

----------------------------------------------------------------------------
(* The requests the in-memory engine is called with.                       *)

sToy == <<"t","o","y">>
sTOYOTA == <<"T","O","Y","O","T","A">>
sCam == <<"c","a","m">>
sSuv == <<"s","u","v">>
sNewCertified == sNew \o <<",">> \o sCertified

\* SearchFilters, without location and radius, which searchVehicles never reads.
FilterFields ==
    <<"make", "model", "bodyType", "condition", "minPrice", "maxPrice",
      "minYear", "maxYear", "maxMileage", "fuelType", "transmission">>
SearchFields == FilterFields \o <<"sortBy", "sortOrder", "page", "limit">>

\* The values a field takes when it is present.
FieldValues(f) ==
    CASE f = "make" -> {sToy, sTOYOTA}
      [] f = "model" -> {sCam}
      [] f = "bodyType" -> {sSuv, sSUV}
      [] f = "condition" -> {sNew, sNewCertified}
      [] f = "minPrice" -> {0, 25000}
      [] f = "maxPrice" -> {0, 25000}
      [] f = "minYear" -> {2020}
      [] f = "maxYear" -> {2020}
      [] f = "maxMileage" -> {20000}
      [] f = "fuelType" -> {sElectric}
      [] f = "transmission" -> {sAutomatic}
      [] f = "sortBy" -> {"price", "year", "mileage", "arbitrageScore", "createdAt"}
      [] f = "sortOrder" -> {"asc", "desc"}
      [] f = "page" -> {-1, 0, 1, 2, 3}
      [] f = "limit" -> {0, 1, 2}

\* The bags over fields[i..], with at most k fields present.
RECURSIVE BagsFrom(_, _, _, _)
BagsFrom(fields, values, i, k) ==
    LET f == fields[i]
        absent == IF i = Len(fields) THEN {f :> None}
                  ELSE {(f :> None) @@ r : r \in BagsFrom(fields, values, i + 1, k)}
        present ==
            IF k = 0 THEN {}
            ELSE IF i = Len(fields) THEN {f :> Some(v) : v \in values[f]}
            ELSE {(f :> Some(v)) @@ r :
                    v \in values[f], r \in BagsFrom(fields, values, i + 1, k - 1)}
    IN  absent \cup present

SearchRequests ==
    BagsFrom(SearchFields,
             [f \in {SearchFields[i] : i \in 1..Len(SearchFields)} |-> FieldValues(f)],
             1, MaxPresent)

\* The calls that sort and cut at once, as the test script's
\* searchVehicles({ sortBy: 'price', sortOrder: 'asc', limit: 3 }).
SortedPageRequests ==
    {[f \in {SearchFields[i] : i \in 1..Len(SearchFields)} |->
        CASE f = "sortBy" -> Some(k)
          [] f = "sortOrder" -> Some(o)
          [] f = "limit" -> Some(n)
          [] OTHER -> None] :
     k \in FieldValues("sortBy"), o \in FieldValues("sortOrder"), n \in {1, 2}}

\* The criteria of a bag that are present, and a bag with no criteria.
PresentFields(fields, bag) == {i \in 1..Len(fields) : IsSome(bag[fields[i]])}
NoCriteria(filters) == PresentFields(FilterFields, filters) = {}

\* The bag with every field but f absent.
Only(bag, fs) == [g \in DOMAIN bag |-> IF g \in fs THEN bag[g] ELSE None]

----------------------------------------------------------------------------
(* The query strings GET /search is called with.                           *)

sToyotaLower == toLowerCase(sToyota)
sHondaTesla == toLowerCase(sHonda) \o <<",">> \o toLowerCase(sTesla)
sNewSpaceCertified == sNew \o <<",", " ">> \o sCertified
sAuto == <<"a","u","t","o">>

\* SearchQuery, without radius, which the handler never reads.
QueryFilterFields ==
    <<"query", "make", "model", "yearMin", "yearMax", "priceMin", "priceMax",
      "mileageMax", "condition", "bodyType", "fuelType", "transmission",
      "city", "state">>
QueryFields == QueryFilterFields \o <<"sortBy", "sortOrder", "page", "limit">>

QueryValues(f) ==
    CASE f = "query" -> {sToyotaLower}
      [] f = "make" -> {sToy, sTOYOTA, sHondaTesla}
      [] f = "model" -> {sCam}
      [] f = "yearMin" -> {<<"2","0","2","0">>}
      [] f = "yearMax" -> {<<"2","0","2","0">>}
      [] f = "priceMin" -> {<<"0">>, <<"2","5","0","0","0">>}
      [] f = "priceMax" -> {<<"0">>, <<"2","5","0","0","0">>}
      [] f = "mileageMax" -> {<<"2","0","0","0","0">>}
      [] f = "condition" -> {sNew, sNewCertified, sNewSpaceCertified}
      [] f = "bodyType" -> {sSuv}
      [] f = "fuelType" -> {sElectric}
      [] f = "transmission" -> {sAuto}
      [] f = "city" -> {toLowerCase(sAustin)}
      [] f = "state" -> {toLowerCase(sTX)}
      [] f = "sortBy" -> {"price", "year", "mileage", "arbitrage", "createdAt", "score"}
      [] f = "sortOrder" -> {"asc", "desc"}
      [] f = "page" -> {<<"-","1">>, <<"0">>, <<"1">>, <<"2">>, <<"3">>}
      [] f = "limit" -> {<<"0">>, <<"1">>, <<"2">>, <<"5","1">>}

SearchQueries ==
    BagsFrom(QueryFields,
             [f \in {QueryFields[i] : i \in 1..Len(QueryFields)} |-> QueryValues(f)],
             1, MaxPresent)

----------------------------------------------------------------------------
(* State machine.                                                          *)

\* The clients that send account requests.
Clients == {1, 2}

\* The state of the accounts before any request.
AuthStart ==
    /\ users = <<>>
    /\ redis = [refresh |-> {}, blacklist |-> {}]
    /\ now = 0
    /\ ticks = 0
    /\ tokens = {}
    /\ nonce = 0
    /\ history = [sent |-> {}, spent |-> {}, loggedOut |-> {}]
    /\ response = [op |-> "none"]
    /\ inflight = [c \in Clients |-> [op |-> "idle"]]

Init ==
    /\ mockVehicles \in Seeds
    /\ vehicleDatabase = mockVehicles
    /\ vehicleCollection = mockVehicles
    /\ call = [op |-> "idle"]
    /\ ret = None
    /\ storeWrites = 0
    /\ AuthStart

\* No operation is running: the engine is synchronous and single-threaded.
Idle == call.op = "idle"

SearchVehicles ==
    \E filters \in SearchRequests \cup SortedPageRequests :
        /\ Idle
        /\ call' = [op |-> "searchVehicles", filters |-> filters]
        /\ ret' = searchVehicles(vehicleDatabase, filters)
        /\ UNCHANGED <<authVars, mockVehicles, vehicleDatabase, vehicleCollection, storeWrites>>

GetVehicleById ==
    \E id \in {v.id : v \in Catalogue} :
        /\ Idle
        /\ call' = [op |-> "getVehicleById", id |-> id]
        /\ ret' = getVehicleById(vehicleDatabase, id)
        /\ UNCHANGED <<authVars, mockVehicles, vehicleDatabase, vehicleCollection, storeWrites>>

GetSearchSuggestions ==
    \E query \in {None, Some(<<>>), Some(<<"t">>), Some(sToy), Some(sCam)} :
        /\ Idle
        /\ call' = [op |-> "getSearchSuggestions", query |-> query]
        /\ ret' = getSearchSuggestions(query)
        /\ UNCHANGED <<authVars, mockVehicles, vehicleDatabase, vehicleCollection, storeWrites>>

GetFeaturedVehicles ==
    \E limit \in {None, Some(1), Some(2)} :
        /\ Idle
        /\ call' = [op |-> "getFeaturedVehicles", limit |-> limit]
        /\ ret' = getFeaturedVehicles(vehicleDatabase, limit)
        /\ vehicleDatabase' = DatabaseAfterFeatured(vehicleDatabase)
        /\ UNCHANGED <<authVars, mockVehicles, vehicleCollection, storeWrites>>

\* GET /search: the validators, then searchVehicles of vehicleController.
\* A failing find or count lands in the handler's catch block; a failing
\* aggregate lands in the catch block of getSearchFilterOptions, and the
\* response then carries the empty filter options.
SearchVehiclesRequest ==
    \E q \in SearchQueries, store \in {"ok", "searchFails", "aggregateFails"} :
        /\ Idle
        /\ call' = [op |-> "GET /search", query |-> q]
        /\ ret' = IF ~ValidSearchQuery(q) THEN [status |-> 400]
                  ELSE IF store = "searchFails" THEN [status |-> 500]
                  ELSE [status |-> 200,
                        body |->
                            IF store = "aggregateFails"
                            THEN [SearchResponse(vehicleCollection,
                                                 SanitizeSearchQuery(q))
                                    EXCEPT !.filters = EmptyFilterOptions]
                            ELSE SearchResponse(vehicleCollection,
                                                SanitizeSearchQuery(q))]
        /\ UNCHANGED <<authVars, mockVehicles, vehicleDatabase, vehicleCollection, storeWrites>>

\* The values of q that GET /suggestions is called with.
SuggestionQueries ==
    {None, Some(<<>>), Some(<<"t">>), Some(<<" ", "t">>), Some(sToy),
     Some(<<"T", "E">>), Some(<<"a", "v">>), Some(<<"t", "x">>)}

\* GET /suggestions: the validators, then getSearchSuggestions of
\* vehicleController. matched is the pattern the aggregates ran with, if
\* they ran. A failing aggregate lands in the catch block.
GetSearchSuggestionsRequest ==
    \E q \in SuggestionQueries, storeOk \in BOOLEAN :
        /\ Idle
        /\ IF ~ValidSuggestionQuery(q)
           THEN /\ call' = [op |-> "GET /suggestions", q |-> q, matched |-> None]
                /\ ret' = [status |-> 400]
           ELSE IF TooShort(SanitizeSuggestionQuery(q))
           THEN /\ call' = [op |-> "GET /suggestions", q |-> q, matched |-> None]
                /\ ret' = [status |-> 200, body |-> <<>>]
           ELSE /\ call' = [op |-> "GET /suggestions", q |-> q,
                            matched |-> Some(trim(Val(SanitizeSuggestionQuery(q))))]
                /\ IF storeOk
                   THEN \E body \in SuggestionResponses(vehicleCollection,
                                        SanitizeSuggestionQuery(q)) :
                            ret' = [status |-> 200, body |-> body]
                   ELSE ret' = [status |-> 500]
        /\ UNCHANGED <<authVars, mockVehicles, vehicleDatabase, vehicleCollection, storeWrites>>

\* GET /filters: getFilterOptions of vehicleController. A failing store read
\* lands in the catch block.
GetFilterOptions ==
    \E storeOk \in BOOLEAN :
        /\ Idle
        /\ call' = [op |-> "GET /filters"]
        /\ ret' = IF ~storeOk THEN [status |-> 500]
                  ELSE [status |-> 200, body |-> getFilterOptions(vehicleCollection)]
        /\ UNCHANGED <<authVars, mockVehicles, vehicleDatabase, vehicleCollection, storeWrites>>

\* The caller takes the result; the next operation starts from there.
Return ==
    /\ ~Idle
    /\ call' = [op |-> "idle"]
    /\ ret' = None
    /\ UNCHANGED <<authVars, mockVehicles, vehicleDatabase, vehicleCollection, storeWrites>>

Next ==
    \/ SearchVehicles
    \/ GetVehicleById
    \/ GetSearchSuggestions
    \/ GetFeaturedVehicles
    \/ SearchVehiclesRequest
    \/ GetSearchSuggestionsRequest
    \/ GetFilterOptions
    \/ Return

Spec == Init /\ [][Next]_vars

----------------------------------------------------------------------------
(* GET /search read by read, with the store written to in between. The     *)
(* handler awaits find and countDocuments together, then the five          *)
(* aggregates of getSearchFilterOptions together; each is a read of its    *)
(* own, and the store serves other clients between any two of them.        *)

\* The query the handler of GET /search saw.
HandlerQuery == SanitizeSearchQuery(call.query)

\* A query string with no field.
NoQuery == [f \in {QueryFields[i] : i \in 1..Len(QueryFields)} |-> None]

\* The requests of this specification.
StoreQueries ==
    {NoQuery,
     [NoQuery EXCEPT !.make = Some(sToy)],
     [NoQuery EXCEPT !.priceMax = Some(<<"2","5","0","0","0">>)],
     [NoQuery EXCEPT !.limit = Some(<<"1">>)],
     [NoQuery EXCEPT !.page = Some(<<"0">>)]}

\* The reads of Promise.all([find, countDocuments]) and the field each
\* aggregate of getSearchFilterOptions groups by.
SearchReads == {"find", "count"}
FacetReads == {"makes", "models", "bodyTypes", "fuelTypes", "transmissions"}
FacetField(facet) ==
    CASE facet = "makes" -> "make"
      [] facet = "models" -> "model"
      [] facet = "bodyTypes" -> "bodyType"
      [] facet = "fuelTypes" -> "fuelType"
      [] facet = "transmissions" -> "transmission"

\* A GET /search is between its first line and its response.
InFlight == call.op = "GET /search" /\ ret = None

\* The validators pass the request to the handler, or answer 400.
StartSearch ==
    \E q \in StoreQueries :
        /\ Idle
        /\ IF ValidSearchQuery(q)
           THEN /\ call' = [op |-> "GET /search", query |-> q,
                            reads |-> <<>>, aggregateFailed |-> FALSE]
                /\ ret' = None
           ELSE /\ call' = [op |-> "GET /search", query |-> q]
                /\ ret' = [status |-> 400]
        /\ UNCHANGED <<authVars, mockVehicles, vehicleDatabase, vehicleCollection, storeWrites>>

\* Vehicle.find(filters).sort(sortOptions).skip(skip).limit(limitNum).lean()
ReadVehicles ==
    /\ InFlight
    /\ "find" \notin DOMAIN call.reads
    /\ call' = [call EXCEPT !.reads =
                    ("find" :> SkipLimit(SortedDocs(vehicleCollection, HandlerQuery),
                                         Skip(PageNum(HandlerQuery), LimitNum(HandlerQuery)),
                                         LimitNum(HandlerQuery))) @@ @]
    /\ UNCHANGED <<authVars, mockVehicles, vehicleDatabase, vehicleCollection, ret, storeWrites>>

\* Vehicle.countDocuments(filters)
CountVehicles ==
    /\ InFlight
    /\ "count" \notin DOMAIN call.reads
    /\ call' = [call EXCEPT !.reads =
                    ("count" :> Total(vehicleCollection, HandlerQuery)) @@ @]
    /\ UNCHANGED <<authVars, mockVehicles, vehicleDatabase, vehicleCollection, ret, storeWrites>>

\* One aggregate of getSearchFilterOptions, once find and count are back.
AggregateFacet ==
    \E facet \in FacetReads :
        /\ InFlight
        /\ SearchReads \subseteq DOMAIN call.reads
        /\ ~call.aggregateFailed
        /\ facet \notin DOMAIN call.reads
        /\ call' = [call EXCEPT !.reads =
                        (facet :> FacetOf(Find(vehicleCollection,
                                               BuildFilters(HandlerQuery)),
                                          FacetField(facet))) @@ @]
        /\ UNCHANGED <<authVars, mockVehicles, vehicleDatabase, vehicleCollection, ret,
                       storeWrites>>

\* find or countDocuments rejects: the handler's catch block answers 500.
SearchFails ==
    /\ InFlight
    /\ ~(SearchReads \subseteq DOMAIN call.reads)
    /\ ret' = [status |-> 500]
    /\ UNCHANGED <<authVars, mockVehicles, vehicleDatabase, vehicleCollection, call, storeWrites>>

\* An aggregate rejects: the catch block of getSearchFilterOptions takes over.
AggregateFails ==
    /\ InFlight
    /\ SearchReads \subseteq DOMAIN call.reads
    /\ ~(FacetReads \subseteq DOMAIN call.reads)
    /\ ~call.aggregateFailed
    /\ call' = [call EXCEPT !.aggregateFailed = TRUE]
    /\ UNCHANGED <<authVars, mockVehicles, vehicleDatabase, vehicleCollection, ret, storeWrites>>

\* The response built from what the reads returned.
ResponseOfReads(q, reads, aggregateFailed) ==
    [vehicles |-> reads["find"],
     total |-> reads["count"],
     page |-> PageNum(q),
     limit |-> LimitNum(q),
     totalPages |-> TotalPagesOf(reads["count"], LimitNum(q)),
     filters |-> IF aggregateFailed THEN EmptyFilterOptions
                 ELSE [makes |-> reads["makes"],
                       models |-> reads["models"],
                       bodyTypes |-> reads["bodyTypes"],
                       fuelTypes |-> reads["fuelTypes"],
                       transmissions |-> reads["transmissions"],
                       priceRange |-> [min |-> 0, max |-> MaxFacetPrice],
                       yearRange |-> [min |-> MinFacetYear, max |-> CurrentYear]]]

\* res.json(response)
RespondSearch ==
    /\ InFlight
    /\ SearchReads \subseteq DOMAIN call.reads
    /\ call.aggregateFailed \/ FacetReads \subseteq DOMAIN call.reads
    /\ ret' = [status |-> 200,
               body |-> ResponseOfReads(HandlerQuery, call.reads, call.aggregateFailed)]
    /\ UNCHANGED <<authVars, mockVehicles, vehicleDatabase, vehicleCollection, call, storeWrites>>

\* The client takes the response.
ReturnResponse == ret # None /\ Return

\* Another client of the store inserts a listing.
InsertListing ==
    \E v \in Catalogue :
        /\ storeWrites < MaxWrites
        /\ \A i \in 1..Len(vehicleCollection) : vehicleCollection[i].id # v.id
        /\ vehicleCollection' = Append(vehicleCollection, v)
        /\ storeWrites' = storeWrites + 1
        /\ UNCHANGED <<authVars, mockVehicles, vehicleDatabase, call, ret>>

\* Another client of the store updates the price of a listing.
UpdateListing ==
    \E i \in 1..Len(vehicleCollection), price \in {v.price : v \in Catalogue} :
        /\ storeWrites < MaxWrites
        /\ price # vehicleCollection[i].price
        /\ vehicleCollection' = [vehicleCollection EXCEPT ![i].price = price]
        /\ storeWrites' = storeWrites + 1
        /\ UNCHANGED <<authVars, mockVehicles, vehicleDatabase, call, ret>>

\* Another client of the store deactivates a listing.
DeactivateListing ==
    \E i \in 1..Len(vehicleCollection) :
        /\ storeWrites < MaxWrites
        /\ vehicleCollection[i].isActive
        /\ vehicleCollection' = [vehicleCollection EXCEPT ![i].isActive = FALSE]
        /\ storeWrites' = storeWrites + 1
        /\ UNCHANGED <<authVars, mockVehicles, vehicleDatabase, call, ret>>

StoreNext ==
    \/ StartSearch
    \/ ReadVehicles
    \/ CountVehicles
    \/ AggregateFacet
    \/ SearchFails
    \/ AggregateFails
    \/ RespondSearch
    \/ ReturnResponse
    \/ InsertListing
    \/ UpdateListing
    \/ DeactivateListing

StoreSpec == Init /\ [][StoreNext]_vars

----------------------------------------------------------------------------
(* Accounts: authController and userController over the User collection    *)
(* and the Redis cache, with the tokens of utils/jwt.                       *)

Emails == {"alice", "bob"}
Passwords == {"p1", "p2"}

\* Lifetimes in seconds: '7d', '30d', 30 * 24 * 60 * 60, and the
\* 10 * 60 * 1000 ms of a password reset.
AccessTokenLifetime == 604800
RefreshTokenLifetime == 2592000
RefreshTokenTtl == 2592000
PasswordResetLifetime == 600

MaxAdvances == 2
MaxRandom == 3
MaxUsers == 1

\* How far the clock is moved in one step.
Delays == {1, PasswordResetLifetime, AccessTokenLifetime}

\* What may fail while a handler runs: nothing, the User collection, Redis.
Faults == {"none", "store", "cache"}

\* jwt.sign(payload, secret, { expiresIn }) at second `at`. The payload
\* (userId, email, role) is fixed per user, so the token is determined by
\* the secret (kind), the user and the second it was signed in.
Sign(kind, userId, at) ==
    [kind |-> kind, userId |-> userId, iat |-> at,
     exp |-> at + (IF kind = "access" THEN AccessTokenLifetime
                   ELSE RefreshTokenLifetime)]

generateTokens(userId, at) ==
    [accessToken |-> Sign("access", userId, at),
     refreshToken |-> Sign("refresh", userId, at)]

\* jwt.verify(token, JWT_REFRESH_SECRET) returns instead of throwing.
verifyRefreshToken(token, at) == token.kind = "refresh" /\ at < token.exp

\* redisClient.get / setEx / del over the entries of one key prefix. An
\* entry is gone once its time to live has run out.
RedisGet(entries, id, at) ==
    LET live == {e \in entries : e.id = id /\ e.expireAt > at}
    IN  IF live = {} THEN None ELSE Some((CHOOSE e \in live : TRUE).value)

RedisSetEx(entries, id, ttl, value, at) ==
    {e \in entries : e.id # id}
        \cup {[id |-> id, value |-> value, expireAt |-> at + ttl]}

RedisDel(entries, id) == {e \in entries : e.id # id}

\* The seconds an entry still has to live (redis TTL), 0 if there is none.
RedisTtl(entries, id, at) ==
    LET live == {e \in entries : e.id = id /\ e.expireAt > at}
    IN  IF live = {} THEN 0 ELSE (CHOOSE e \in live : TRUE).expireAt - at

\* blacklistToken with the whole lifetime of the token as time to live.
TtlOfLifetime(token, at) == token.exp - token.iat

\* const ttl = decoded.exp - Math.floor(Date.now() / 1000)
TtlOf(token, at) == token.exp - at

\* blacklistToken(token)
blacklistToken(cache, token, at) ==
    IF TtlOf(token, at) > 0
    THEN [cache EXCEPT !.blacklist =
            RedisSetEx(@, token, TtlOf(token, at), "true", at)]
    ELSE cache

\* redisClient.setEx(`refresh_token:${user._id}`, 30 days, refreshToken)
StoreRefreshToken(cache, userId, token, at) ==
    [cache EXCEPT !.refresh = RedisSetEx(@, userId, RefreshTokenTtl, token, at)]

\* if (!storedToken || storedToken !== refreshToken) fails.
StoredTokenAlwaysMatches(storedToken, refreshToken) == IsSome(storedToken)

StoredTokenMatches(storedToken, refreshToken) ==
    IsSome(storedToken) /\ Val(storedToken) = refreshToken

\* User.findOne({ email })
FindByEmail(collection, email) ==
    {id \in DOMAIN collection : collection[id].email = email}

\* User.create({ email, password, ..., role: role || 'buyer',
\* emailVerificationToken }); the schema's defaults fill the rest.
NewUser(email, password, role, emailVerificationToken) ==
    [email |-> email, password |-> password, firstName |-> <<"A", "l">>,
     role |-> IF IsSome(role) THEN Val(role) ELSE "buyer",
     isEmailVerified |-> FALSE,
     emailVerificationToken |-> Some(emailVerificationToken),
     passwordResetToken |-> None, passwordResetExpires |-> None]

\* No response is on its way: the requests of this specification come one
\* after the other.
Quiet == response.op = "none"

\* The client takes the response.
Deliver ==
    /\ ~Quiet
    /\ response' = [op |-> "none"]
    /\ UNCHANGED <<vehicleVars, users, redis, now, ticks, tokens, nonce, history, inflight>>

AuthInit ==
    /\ mockVehicles = <<>>
    /\ vehicleDatabase = <<>>
    /\ vehicleCollection = <<>>
    /\ call = [op |-> "idle"]
    /\ ret = None
    /\ storeWrites = 0
    /\ AuthStart

\* POST /register
Register ==
    \E email \in Emails, password \in {"p1"}, role \in {None, Some("seller")},
       fault \in Faults :
        /\ Quiet
        /\ UNCHANGED <<vehicleVars, now, ticks, inflight>>
        /\ IF fault = "store"
           THEN /\ response' = [op |-> "register", email |-> email, at |-> now,
                                status |-> 500]
                /\ UNCHANGED <<users, redis, tokens, nonce, history>>
           ELSE IF FindByEmail(users, email) # {}
           THEN /\ response' = [op |-> "register", email |-> email, at |-> now,
                                status |-> 400]
                /\ UNCHANGED <<users, redis, tokens, nonce, history>>
           ELSE /\ nonce < MaxRandom
                /\ Cardinality(DOMAIN users) < MaxUsers
                /\ nonce' = nonce + 1
                /\ users' = [id \in DOMAIN users \cup {email} |->
                                IF id = email
                                THEN NewUser(email, password, role, nonce + 1)
                                ELSE users[id]]
                /\ IF fault = "cache"
                   THEN /\ response' = [op |-> "register", email |-> email,
                                        at |-> now, status |-> 500]
                        /\ UNCHANGED <<redis, tokens, history>>
                   ELSE /\ redis' = StoreRefreshToken(redis, email,
                                        generateTokens(email, now).refreshToken, now)
                        /\ tokens' = tokens \cup
                                {generateTokens(email, now).accessToken,
                                 generateTokens(email, now).refreshToken}
                        /\ history' = [history EXCEPT !.loggedOut = @ \ {email}]
                        /\ response' = [op |-> "register", email |-> email,
                                        at |-> now, status |-> 201,
                                        tokens |-> generateTokens(email, now)]

\* POST /login
Login ==
    \E email \in Emails, password \in Passwords, fault \in Faults :
        /\ Quiet
        /\ UNCHANGED <<vehicleVars, users, now, ticks, nonce, inflight>>
        /\ IF fault = "store"
           THEN /\ response' = [op |-> "login", email |-> email, at |-> now,
                                status |-> 500]
                /\ UNCHANGED <<redis, tokens, history>>
           ELSE IF \/ FindByEmail(users, email) = {}
                   \/ \A id \in FindByEmail(users, email) :
                        users[id].password # password
           THEN /\ response' = [op |-> "login", email |-> email, at |-> now,
                                status |-> 401]
                /\ UNCHANGED <<redis, tokens, history>>
           ELSE IF fault = "cache"
           THEN /\ response' = [op |-> "login", email |-> email, at |-> now,
                                status |-> 500]
                /\ UNCHANGED <<redis, tokens, history>>
           ELSE \E id \in FindByEmail(users, email) :
                /\ redis' = StoreRefreshToken(redis, id,
                                generateTokens(id, now).refreshToken, now)
                /\ tokens' = tokens \cup {generateTokens(id, now).accessToken,
                                          generateTokens(id, now).refreshToken}
                /\ history' = [history EXCEPT !.loggedOut = @ \ {id}]
                /\ response' = [op |-> "login", email |-> email, at |-> now,
                                status |-> 200, tokens |-> generateTokens(id, now)]

\* The Authorization headers a request may carry: none, or a token that was
\* handed out.
BearerTokens == {None} \cup {Some(t) : t \in tokens}

\* req.user?._id: the user of the token when the request is authenticated.
RequestUsers(token) ==
    {None} \cup (IF IsSome(token) /\ Val(token).userId \in DOMAIN users
                 THEN {Some(Val(token).userId)} ELSE {})

\* The cache after logout's two steps.
CacheAfterLogout(cache, token, userId, at) ==
    LET blacklisted == IF IsSome(token) THEN blacklistToken(cache, Val(token), at)
                       ELSE cache
    IN  IF IsSome(userId)
        THEN [blacklisted EXCEPT !.refresh = RedisDel(@, Val(userId))]
        ELSE blacklisted

\* POST /logout
Logout ==
    \E token \in BearerTokens, fault \in {"none", "cache"} :
      \E userId \in RequestUsers(token) :
        /\ Quiet
        /\ UNCHANGED <<vehicleVars, users, now, ticks, tokens, nonce, inflight>>
        /\ IF /\ fault = "cache"
              /\ \/ IsSome(userId)
                 \/ IsSome(token) /\ TtlOf(Val(token), now) > 0
           THEN /\ response' = [op |-> "logout", token |-> token,
                                userId |-> userId, at |-> now, status |-> 500]
                /\ UNCHANGED <<redis, history>>
           ELSE /\ redis' = CacheAfterLogout(redis, token, userId, now)
                /\ history' = [history EXCEPT !.loggedOut =
                                @ \cup (IF IsSome(userId) THEN {Val(userId)} ELSE {})]
                /\ response' = [op |-> "logout", token |-> token,
                                userId |-> userId, at |-> now, status |-> 200]

\* POST /refresh-token
RefreshToken ==
    \E refreshToken \in BearerTokens, fault \in Faults :
        /\ Quiet
        /\ UNCHANGED <<vehicleVars, users, now, ticks, nonce, history, inflight>>
        /\ IF \/ ~IsSome(refreshToken)
              \/ ~verifyRefreshToken(Val(refreshToken), now)
              \/ fault # "none"
              \/ ~StoredTokenMatches(
                    RedisGet(redis.refresh, Val(refreshToken).userId, now),
                    Val(refreshToken))
              \/ Val(refreshToken).userId \notin DOMAIN users
           THEN /\ response' = [op |-> "refreshToken", token |-> refreshToken,
                                at |-> now, status |-> 401]
                /\ UNCHANGED <<redis, tokens>>
           ELSE /\ redis' = StoreRefreshToken(redis, Val(refreshToken).userId,
                                generateTokens(Val(refreshToken).userId, now).refreshToken,
                                now)
                /\ tokens' = tokens \cup
                        {generateTokens(Val(refreshToken).userId, now).accessToken,
                         generateTokens(Val(refreshToken).userId, now).refreshToken}
                /\ response' = [op |-> "refreshToken", token |-> refreshToken,
                                at |-> now, status |-> 200,
                                tokens |-> generateTokens(Val(refreshToken).userId, now)]

\* The body both branches of forgotPassword answer with.
ResetLinkSent ==
    [success |-> TRUE, message |-> "If an account with that email exists, a password reset link has been sent."]

\* forgotPassword answering 404 when there is no such account.
ForgotPasswordRevealing(found) ==
    IF found THEN [status |-> 200, body |-> ResetLinkSent]
    ELSE [status |-> 404, body |-> [success |-> FALSE, message |-> "User not found"]]

\* What forgotPassword answers when the store works.
ForgotPasswordAnswer(found) == [status |-> 200, body |-> ResetLinkSent]

\* POST /forgot-password
ForgotPassword ==
    \E email \in Emails, fault \in {"none", "store"} :
        /\ Quiet
        /\ UNCHANGED <<vehicleVars, redis, now, ticks, tokens, inflight>>
        /\ IF fault = "store"
           THEN /\ response' = [op |-> "forgotPassword", email |-> email,
                                fault |-> fault, at |-> now, status |-> 500,
                                body |-> [success |-> FALSE,
                                          message |-> "Failed to process password reset request"]]
                /\ UNCHANGED <<users, nonce, history>>
           ELSE IF FindByEmail(users, email) = {}
           THEN /\ response' = [op |-> "forgotPassword", email |-> email,
                                fault |-> fault, at |-> now,
                                status |-> ForgotPasswordAnswer(FALSE).status,
                                body |-> ForgotPasswordAnswer(FALSE).body]
                /\ UNCHANGED <<users, nonce, history>>
           ELSE \E id \in FindByEmail(users, email) :
                /\ nonce < MaxRandom
                /\ nonce' = nonce + 1
                /\ users' = [users EXCEPT
                                ![id].passwordResetToken = Some(nonce + 1),
                                ![id].passwordResetExpires =
                                    Some(now + PasswordResetLifetime)]
                /\ history' = [history EXCEPT !.sent =
                                @ \cup {[token |-> nonce + 1, at |-> now]}]
                /\ response' = [op |-> "forgotPassword", email |-> email,
                                fault |-> fault, at |-> now,
                                status |-> ForgotPasswordAnswer(TRUE).status,
                                body |-> ForgotPasswordAnswer(TRUE).body]

\* The filter of resetPassword with the second condition left out.
ResetTokenMatchesAnyTime(user, token, at) ==
    user.passwordResetToken = Some(token)

\* { passwordResetToken: token, passwordResetExpires: { $gt: Date.now() } }
ResetTokenMatches(user, token, at) ==
    /\ user.passwordResetToken = Some(token)
    /\ IsSome(user.passwordResetExpires)
    /\ Val(user.passwordResetExpires) > at

\* The random tokens a request may carry: one never drawn, or one drawn.
RandomTokens == 0..nonce

\* POST /reset-password
ResetPassword ==
    \E token \in RandomTokens, password \in Passwords, fault \in {"none", "store"} :
        /\ Quiet
        /\ UNCHANGED <<vehicleVars, redis, now, ticks, tokens, nonce, inflight>>
        /\ IF fault = "store"
           THEN /\ response' = [op |-> "resetPassword", token |-> token,
                                password |-> password, at |-> now, status |-> 500]
                /\ UNCHANGED <<users, history>>
           ELSE IF \A id \in DOMAIN users : ~ResetTokenMatches(users[id], token, now)
           THEN /\ response' = [op |-> "resetPassword", token |-> token,
                                password |-> password, at |-> now, status |-> 400]
                /\ UNCHANGED <<users, history>>
           ELSE \E id \in {i \in DOMAIN users : ResetTokenMatches(users[i], token, now)} :
                /\ users' = [users EXCEPT ![id].password = password,
                                          ![id].passwordResetToken = None,
                                          ![id].passwordResetExpires = None]
                /\ history' = [history EXCEPT !.spent = @ \cup {token}]
                /\ response' = [op |-> "resetPassword", token |-> token,
                                password |-> password, at |-> now, status |-> 200]

\* GET /verify-email/:token
VerifyEmail ==
    \E token \in RandomTokens :
        /\ Quiet
        /\ UNCHANGED <<vehicleVars, redis, now, ticks, tokens, nonce, history, inflight>>
        /\ IF \A id \in DOMAIN users : users[id].emailVerificationToken # Some(token)
           THEN /\ response' = [op |-> "verifyEmail", token |-> token, at |-> now,
                                status |-> 400]
                /\ UNCHANGED users
           ELSE \E id \in {i \in DOMAIN users :
                            users[i].emailVerificationToken = Some(token)} :
                /\ users' = [users EXCEPT ![id].isEmailVerified = TRUE,
                                          ![id].emailVerificationToken = None]
                /\ response' = [op |-> "verifyEmail", token |-> token, at |-> now,
                                status |-> 200]

\* The keys a profile update may carry, and the value it carries for each.
ProfileKeys == {"firstName", "password", "email", "role", "isEmailVerified"}

ProfileValue ==
    [firstName |-> <<" ", "B", "e", "a">>, password |-> "p2", email |-> "bob",
     role |-> "admin", isEmailVerified |-> TRUE]

\* req.body of PUT /profile: no key, one key, every key, or a first name of
\* one letter.
ProfileBodies ==
    {[k \in keys |-> ProfileValue[k]] :
        keys \in {{}, ProfileKeys} \cup {{k} : k \in ProfileKeys}}
        \cup {[k \in {"firstName"} |-> <<"B">>]}

\* body('firstName').optional().trim().isLength({ min: 2, max: 50 })
ValidProfile(body) ==
    "firstName" \in DOMAIN body =>
        /\ Len(trim(body.firstName)) >= 2
        /\ Len(trim(body.firstName)) <= 50

\* The .trim() sanitizer rewrites req.body.firstName.
SanitizeProfile(body) ==
    [k \in DOMAIN body |-> IF k = "firstName" THEN trim(body[k]) ELSE body[k]]

\* updateProfile with one delete missing.
UpdatesOfKeepingVerified(body) ==
    [k \in DOMAIN body \ {"password", "email", "role"} |-> body[k]]

\* delete updates.password; .email; .role; .isEmailVerified
UpdatesOf(body) ==
    [k \in DOMAIN body \ {"password", "email", "role", "isEmailVerified"} |-> body[k]]

\* { $set: updates } on one document.
SetFields(user, updates) ==
    [f \in DOMAIN user |-> IF f \in DOMAIN updates THEN updates[f] ELSE user[f]]

\* PUT /profile
UpdateProfile ==
    \E userId \in Emails, body \in ProfileBodies, fault \in {"none", "store"} :
        /\ Quiet
        /\ UNCHANGED <<vehicleVars, redis, now, ticks, tokens, nonce, history, inflight>>
        /\ IF ~ValidProfile(body)
           THEN /\ response' = [op |-> "updateProfile", userId |-> userId,
                                body |-> body, at |-> now, status |-> 400]
                /\ UNCHANGED users
           ELSE IF fault = "store"
           THEN /\ response' = [op |-> "updateProfile", userId |-> userId,
                                body |-> body, at |-> now, status |-> 500]
                /\ UNCHANGED users
           ELSE IF userId \notin DOMAIN users
           THEN /\ response' = [op |-> "updateProfile", userId |-> userId,
                                body |-> body, at |-> now, status |-> 404]
                /\ UNCHANGED users
           ELSE /\ users' = [users EXCEPT ![userId] =
                                SetFields(@, UpdatesOf(SanitizeProfile(body)))]
                /\ response' = [op |-> "updateProfile", userId |-> userId,
                                body |-> body, at |-> now, status |-> 200]

\* Time passes; Redis drops the entries whose time to live has run out.
AdvanceClock ==
    \E d \in Delays :
        /\ Quiet
        /\ ticks < MaxAdvances
        /\ ticks' = ticks + 1
        /\ now' = now + d
        /\ redis' = [refresh |-> {e \in redis.refresh : e.expireAt > now + d},
                     blacklist |-> {e \in redis.blacklist : e.expireAt > now + d}]
        /\ UNCHANGED <<vehicleVars, users, tokens, nonce, history, response, inflight>>

\* Sessions: the requests that issue, rotate and revoke tokens.
SessionNext ==
    \/ Register
    \/ Login
    \/ Logout
    \/ RefreshToken
    \/ AdvanceClock
    \/ Deliver

SessionSpec == AuthInit /\ [][SessionNext]_vars

\* Accounts: the requests that write the documents of the User collection.
AccountNext ==
    \/ Register
    \/ ForgotPassword
    \/ ResetPassword
    \/ VerifyEmail
    \/ UpdateProfile
    \/ AdvanceClock
    \/ Deliver

AccountSpec == AuthInit /\ [][AccountNext]_vars

----------------------------------------------------------------------------
(* Sessions, await by await: refreshToken and logout of several clients    *)
(* interleave at their cache and store calls.                              *)

\* One account has registered; its tokens are what the 201 handed out.
RaceInit ==
    /\ mockVehicles = <<>>
    /\ vehicleDatabase = <<>>
    /\ vehicleCollection = <<>>
    /\ call = [op |-> "idle"]
    /\ ret = None
    /\ storeWrites = 0
    /\ users = [id \in {"alice"} |-> NewUser("alice", "p1", None, 1)]
    /\ redis = StoreRefreshToken([refresh |-> {}, blacklist |-> {}], "alice",
                    generateTokens("alice", 0).refreshToken, 0)
    /\ now = 0
    /\ ticks = 0
    /\ tokens = {generateTokens("alice", 0).accessToken,
                 generateTokens("alice", 0).refreshToken}
    /\ nonce = 1
    /\ history = [sent |-> {}, spent |-> {}, loggedOut |-> {}]
    /\ response = [op |-> "none"]
    /\ inflight = [c \in Clients |-> [op |-> "idle"]]

\* refreshToken up to verifyRefreshToken: a missing token is answered 401,
\* a token that does not verify lands in the catch block.
BeginRefresh(c) ==
    \E refreshToken \in BearerTokens :
        /\ inflight[c].op = "idle"
        /\ inflight' = [inflight EXCEPT ![c] =
                IF IsSome(refreshToken) /\ verifyRefreshToken(Val(refreshToken), now)
                THEN [op |-> "refreshToken", token |-> refreshToken, pc |-> "get"]
                ELSE [op |-> "refreshToken", token |-> refreshToken, pc |-> "done",
                      status |-> 401]]
        /\ UNCHANGED <<vehicleVars, users, redis, now, ticks, tokens, nonce, history, response>>

\* await redisClient.get(`refresh_token:${decoded.userId}`) and the comparison.
RefreshGet(c) ==
    /\ inflight[c].op = "refreshToken"
    /\ inflight[c].pc = "get"
    /\ inflight' = [inflight EXCEPT ![c] =
            IF StoredTokenMatches(
                    RedisGet(redis.refresh, Val(inflight[c].token).userId, now),
                    Val(inflight[c].token))
            THEN [@ EXCEPT !.pc = "findById"]
            ELSE [op |-> "refreshToken", token |-> inflight[c].token, pc |-> "done",
                  status |-> 401]]
    /\ UNCHANGED <<vehicleVars, users, redis, now, ticks, tokens, nonce, history, response>>

\* await User.findById(decoded.userId), then generateTokens.
RefreshFindById(c) ==
    /\ inflight[c].op = "refreshToken"
    /\ inflight[c].pc = "findById"
    /\ inflight' = [inflight EXCEPT ![c] =
            IF Val(inflight[c].token).userId \in DOMAIN users
            THEN [op |-> "refreshToken", token |-> inflight[c].token, pc |-> "setEx",
                  tokens |-> generateTokens(Val(inflight[c].token).userId, now)]
            ELSE [op |-> "refreshToken", token |-> inflight[c].token, pc |-> "done",
                  status |-> 401]]
    /\ UNCHANGED <<vehicleVars, users, redis, now, ticks, tokens, nonce, history, response>>

\* await redisClient.setEx(...), then the 200 with the new tokens.
RefreshSetEx(c) ==
    /\ inflight[c].op = "refreshToken"
    /\ inflight[c].pc = "setEx"
    /\ redis' = StoreRefreshToken(redis, Val(inflight[c].token).userId,
                    inflight[c].tokens.refreshToken, now)
    /\ tokens' = tokens \cup {inflight[c].tokens.accessToken,
                              inflight[c].tokens.refreshToken}
    /\ inflight' = [inflight EXCEPT ![c] =
            [op |-> "refreshToken", token |-> inflight[c].token, pc |-> "done",
             status |-> 200, tokens |-> inflight[c].tokens]]
    /\ UNCHANGED <<vehicleVars, users, now, ticks, nonce, history, response>>

\* logout of an authenticated user up to await blacklistToken(token).
BeginLogout(c) ==
    \E token \in {t \in tokens : t.kind = "access" /\ t.userId \in DOMAIN users} :
        /\ inflight[c].op = "idle"
        /\ redis' = blacklistToken(redis, token, now)
        /\ inflight' = [inflight EXCEPT ![c] =
                [op |-> "logout", token |-> Some(token), userId |-> token.userId,
                 pc |-> "del"]]
        /\ UNCHANGED <<vehicleVars, users, now, ticks, tokens, nonce, history, response>>

\* await redisClient.del(`refresh_token:${userId}`), then the 200.
LogoutDel(c) ==
    /\ inflight[c].op = "logout"
    /\ inflight[c].pc = "del"
    /\ redis' = [redis EXCEPT !.refresh = RedisDel(@, inflight[c].userId)]
    /\ history' = [history EXCEPT !.loggedOut = @ \cup {inflight[c].userId}]
    /\ inflight' = [inflight EXCEPT ![c] =
            [op |-> "logout", token |-> inflight[c].token,
             userId |-> inflight[c].userId, pc |-> "done", status |-> 200]]
    /\ UNCHANGED <<vehicleVars, users, now, ticks, tokens, nonce, response>>

\* login with the right password, at its one cache write.
ClientLogin(c) ==
    \E id \in DOMAIN users :
        /\ inflight[c].op = "idle"
        /\ redis' = StoreRefreshToken(redis, id,
                        generateTokens(id, now).refreshToken, now)
        /\ tokens' = tokens \cup {generateTokens(id, now).accessToken,
                                  generateTokens(id, now).refreshToken}
        /\ history' = [history EXCEPT !.loggedOut = @ \ {id}]
        /\ inflight' = [inflight EXCEPT ![c] =
                [op |-> "login", pc |-> "done", status |-> 200,
                 tokens |-> generateTokens(id, now)]]
        /\ UNCHANGED <<vehicleVars, users, now, ticks, nonce, response>>

\* The client takes its response.
Receive(c) ==
    /\ inflight[c].op # "idle"
    /\ inflight[c].pc = "done"
    /\ inflight' = [inflight EXCEPT ![c] = [op |-> "idle"]]
    /\ UNCHANGED <<vehicleVars, users, redis, now, ticks, tokens, nonce, history, response>>

RaceNext ==
    \/ \E c \in Clients : BeginRefresh(c)
    \/ \E c \in Clients : RefreshGet(c)
    \/ \E c \in Clients : RefreshFindById(c)
    \/ \E c \in Clients : RefreshSetEx(c)
    \/ \E c \in Clients : BeginLogout(c)
    \/ \E c \in Clients : LogoutDel(c)
    \/ \E c \in Clients : ClientLogin(c)
    \/ \E c \in Clients : Receive(c)
    \/ AdvanceClock

RaceSpec == RaceInit /\ [][RaceNext]_vars

----------------------------------------------------------------------------
(* Properties.                                                             *)

\* The last operation was a search of the in-memory engine.
InMemorySearch == call.op = "searchVehicles"

\* The last operation was a GET /search that was answered with 200.
PersistedSearch == call.op = "GET /search" /\ ret.status = 200

SetOf(a) == {a[i] : i \in 1..Len(a)}

\* The names of the fields of a bag that are present, among fields.
PresentCriteria(fields, bag) ==
    {fields[i] : i \in {j \in 1..Len(fields) : IsSome(bag[fields[j]])}}

\* The bag without its page and limit.
WithoutPaging(bag) == [bag EXCEPT !.page = None, !.limit = None]

\* A listing on its own passes the filters of the in-memory engine.
Satisfies(v, filters) == ApplyFilters(<<v>>, filters) = <<v>>

\* C1: the total a search reports is the number of listings that satisfy
\* all the filters present, and is the same whatever page and limit are:
\* pagination.totalResults of the in-memory search, total of GET /search.
C1_TotalCountsMatches ==
    /\ InMemorySearch =>
        /\ ret.pagination.totalResults =
             Cardinality({i \in 1..Len(vehicleDatabase) :
                            Satisfies(vehicleDatabase[i], call.filters)})
        /\ ret.pagination.totalResults =
             searchVehicles(vehicleDatabase,
                            WithoutPaging(call.filters)).pagination.totalResults
    /\ PersistedSearch =>
        /\ ret.body.total =
             Cardinality({i \in 1..Len(vehicleCollection) :
                            MatchesFilters(vehicleCollection[i],
                                           BuildFilters(HandlerQuery))})
        /\ ret.body.total =
             SearchResponse(vehicleCollection, WithoutPaging(HandlerQuery)).total

\* A search of a page of one listing over a collection of which some, but
\* not all, listings pass the filter.
C1_Witness ==
    /\ InMemorySearch
    /\ IsSome(call.filters.limit) /\ Val(call.filters.limit) = 1
    /\ ret.pagination.totalResults = 2
    /\ Len(vehicleDatabase) = 3
    /\ Len(ret.vehicles) = 1

\* C2: no operation of the in-memory engine changes the listing collection:
\* vehicleDatabase holds the seeded listings in the seeded order.
C2_DatabaseUnchanged == vehicleDatabase = mockVehicles

\* C3: searchVehicles is deterministic in its inputs: a call returns the
\* listings, in the order, that the same call returned on the freshly seeded
\* engine, whatever operations ran in between.
C3_SearchDeterministic ==
    InMemorySearch =>
        ret.vehicles = searchVehicles(mockVehicles, call.filters).vehicles

\* C4: filtering only narrows: the filtered collection has at most as many
\* listings as the collection, each of them a listing of the collection as
\* often as it occurs there; with no criteria it is the collection itself,
\* as a multiset.
C4_FilterNarrows ==
    InMemorySearch =>
        LET filtered == ApplyFilters(vehicleDatabase, call.filters)
        IN  /\ Len(filtered) <= Len(vehicleDatabase)
            /\ ret.pagination.totalResults <= Len(vehicleDatabase)
            /\ \A v \in SetOf(filtered) :
                    Occurrences(filtered, v) <= Occurrences(vehicleDatabase, v)
            /\ SetOf(ret.vehicles) \subseteq SetOf(vehicleDatabase)
            /\ NoCriteria(call.filters) =>
                /\ ret.pagination.totalResults = Len(vehicleDatabase)
                /\ \A v \in SetOf(vehicleDatabase) :
                        Occurrences(filtered, v) = Occurrences(vehicleDatabase, v)

\* A search without criteria over a collection of several listings.
C4_Witness ==
    /\ InMemorySearch
    /\ NoCriteria(call.filters)
    /\ Len(vehicleDatabase) >= 2
    /\ Len(ret.vehicles) = Len(vehicleDatabase)

\* C5: filters compose conjunctively: the listings that pass two criteria
\* given together are the listings that pass each of them given alone, in
\* the in-memory search and in GET /search.
C5_FiltersIntersect ==
    /\ InMemorySearch =>
        \A a, b \in PresentCriteria(FilterFields, call.filters) :
            a # b =>
                /\ SetOf(ApplyFilters(vehicleDatabase, Only(call.filters, {a, b})))
                     = SetOf(ApplyFilters(vehicleDatabase, Only(call.filters, {a})))
                       \cap SetOf(ApplyFilters(vehicleDatabase, Only(call.filters, {b})))
                /\ ret.pagination.totalResults <=
                     Len(ApplyFilters(vehicleDatabase, Only(call.filters, {a})))
                /\ PresentCriteria(FilterFields, call.filters) = {a, b} =>
                     ret.pagination.totalResults =
                       Cardinality(
                         SetOf(ApplyFilters(vehicleDatabase, Only(call.filters, {a})))
                         \cap SetOf(ApplyFilters(vehicleDatabase, Only(call.filters, {b}))))
    /\ PersistedSearch =>
        \A a, b \in PresentCriteria(QueryFilterFields, HandlerQuery) :
            a # b =>
                /\ SetOf(Find(vehicleCollection, BuildFilters(Only(HandlerQuery, {a, b}))))
                     = SetOf(Find(vehicleCollection, BuildFilters(Only(HandlerQuery, {a}))))
                       \cap SetOf(Find(vehicleCollection, BuildFilters(Only(HandlerQuery, {b}))))
                /\ PresentCriteria(QueryFilterFields, HandlerQuery) = {a, b} =>
                     ret.body.total =
                       Cardinality(
                         SetOf(Find(vehicleCollection, BuildFilters(Only(HandlerQuery, {a}))))
                         \cap SetOf(Find(vehicleCollection, BuildFilters(Only(HandlerQuery, {b})))))

\* A search with a lower and an upper price bound, each of which alone lets
\* through a listing the other one stops.
C5_Witness ==
    /\ InMemorySearch
    /\ PresentCriteria(FilterFields, call.filters) = {"minPrice", "maxPrice"}
    /\ ret.pagination.totalResults = 1
    /\ Len(ApplyFilters(vehicleDatabase, Only(call.filters, {"minPrice"}))) = 2
    /\ Len(ApplyFilters(vehicleDatabase, Only(call.filters, {"maxPrice"}))) = 2

\* The vehicles the in-memory search returns for page p of a request.
VehiclesOfPage(database, filters, p) ==
    LET f == [filters EXCEPT !.page = Some(p)]
    IN  PaginatedResults(SortedResults(database, f), PageOf(f), LimitOf(f))

\* Pages 1..n of a request, one after the other.
RECURSIVE PagesUpTo(_, _, _)
PagesUpTo(database, filters, n) ==
    IF n <= 0 THEN <<>>
    ELSE PagesUpTo(database, filters, n - 1) \o VehiclesOfPage(database, filters, n)

\* The vehicles GET /search returns for ?page=p of a query.
DocsOfPage(collection, q, p) ==
    LET qp == [q EXCEPT !.page = Some(IntString(p))]
    IN  SkipLimit(SortedDocs(collection, qp),
                  Skip(PageNum(qp), LimitNum(qp)), LimitNum(qp))

RECURSIVE DocPagesUpTo(_, _, _)
DocPagesUpTo(collection, q, n) ==
    IF n <= 0 THEN <<>>
    ELSE DocPagesUpTo(collection, q, n - 1) \o DocsOfPage(collection, q, n)

\* C6: pagination is exhaustive and non-overlapping: for the filter, sort
\* and page size of a search, pages 1..totalPages taken over the same
\* collection and put one after the other are the sorted filtered
\* collection, every listing exactly once.
C6_PagesCoverResults ==
    /\ InMemorySearch =>
        LET all == PagesUpTo(vehicleDatabase, call.filters,
                             ret.pagination.totalPages)
            filtered == ApplyFilters(vehicleDatabase, call.filters)
        IN  /\ all = SortedResults(vehicleDatabase, call.filters)
            /\ Len(all) = ret.pagination.totalResults
            /\ \A v \in SetOf(filtered) \cup SetOf(all) :
                    Occurrences(all, v) = Occurrences(filtered, v)
    /\ PersistedSearch =>
        LET all == DocPagesUpTo(vehicleCollection, HandlerQuery,
                                ret.body.totalPages)
            found == Find(vehicleCollection, BuildFilters(HandlerQuery))
        IN  /\ all = SortedDocs(vehicleCollection, HandlerQuery)
            /\ Len(all) = ret.body.total
            /\ \A v \in SetOf(found) \cup SetOf(all) :
                    Occurrences(all, v) = Occurrences(found, v)

\* The second of three pages of one listing each.
C6_Witness ==
    /\ InMemorySearch
    /\ ret.pagination.totalPages = 3
    /\ ret.pagination.currentPage = 2
    /\ Len(ret.vehicles) = 1
    /\ ret.vehicles[1] = SortedResults(vehicleDatabase, call.filters)[2]

\* C7: a page beyond the last one is no error: the vehicles list is empty,
\* hasNextPage is false, totalPages and totalResults are those of the first
\* page; with the default page size over a non-empty collection of at most
\* 12 listings totalPages is 1.
C7_PageBeyondLastIsEmpty ==
    InMemorySearch /\ PageOf(call.filters) > ret.pagination.totalPages =>
        LET first == Pagination(SortedResults(vehicleDatabase, call.filters),
                                DefaultPage, LimitOf(call.filters))
        IN  /\ ret.vehicles = <<>>
            /\ ret.pagination.hasNextPage = FALSE
            /\ ret.pagination.totalPages = first.totalPages
            /\ ret.pagination.totalResults = first.totalResults
            /\ (~IsSome(call.filters.limit) /\ ret.pagination.totalResults > 0
                    /\ ret.pagination.totalResults <= DefaultLimit) =>
                 ret.pagination.totalPages = 1

\* Page 3 with the default page size over three listings.
C7_Witness ==
    /\ InMemorySearch
    /\ call.filters.page = Some(3)
    /\ ~IsSome(call.filters.limit)
    /\ ret.pagination.totalResults = 3
    /\ ret.pagination.totalPages = 1
    /\ ret.vehicles = <<>>

\* The least n with n * limit >= total: ceil(total / limit) for limit >= 1.
CeilOf(total, limit) ==
    CHOOSE n \in 0..total : n * limit >= total /\ (n = 0 \/ (n - 1) * limit < total)

\* C8 as claimed: totalPages is ceil(total / pageSize) and never below 1,
\* in the in-memory search and in GET /search.
C8_TotalPagesAtLeastOne ==
    /\ InMemorySearch =>
        /\ ret.pagination.totalPages =
             CeilOf(ret.pagination.totalResults, LimitOf(call.filters))
        /\ ret.pagination.totalPages >= 1
    /\ PersistedSearch =>
        /\ ret.body.totalPages = CeilOf(ret.body.total, ret.body.limit)
        /\ ret.body.totalPages >= 1

\* C8 as amended: totalPages is ceil(total / pageSize): 0 when no listing
\* matches, at least 1 otherwise, in the in-memory search and in GET /search.
C8_TotalPagesIsCeil ==
    /\ InMemorySearch =>
        /\ ret.pagination.totalPages =
             CeilOf(ret.pagination.totalResults, LimitOf(call.filters))
        /\ ret.pagination.totalResults = 0 <=> ret.pagination.totalPages = 0
    /\ PersistedSearch =>
        /\ ret.body.totalPages = CeilOf(ret.body.total, ret.body.limit)
        /\ ret.body.total = 0 <=> ret.body.totalPages = 0

\* A search whose filters no listing of a non-empty collection passes.
C8_Witness ==
    /\ InMemorySearch
    /\ Len(vehicleDatabase) >= 1
    /\ ~NoCriteria(call.filters)
    /\ ret.pagination.totalResults = 0
    /\ ret.pagination.totalPages = 0

\* C9: a page number below 1 is rejected or treated as page 1: the in-memory
\* search returns the first page and its slice offset is not negative;
\* GET /search answers 400 or returns the first page.
C9_PageBelowOneIsFirstPage ==
    /\ (InMemorySearch /\ IsSome(call.filters.page) /\ Val(call.filters.page) < 1) =>
        /\ StartIndex(PageOf(call.filters), LimitOf(call.filters)) >= 0
        /\ ret.vehicles =
             PaginatedResults(SortedResults(vehicleDatabase, call.filters),
                              DefaultPage, LimitOf(call.filters))
    /\ (call.op = "GET /search" /\ IsSome(call.query.page)
            /\ IsIntString(Val(call.query.page))
            /\ parseInt(Val(call.query.page)) < 1) =>
        \/ ret.status = 400
        \/ ret.status = 500
        \/ /\ ret.status = 200
           /\ ret.body.vehicles = DocsOfPage(vehicleCollection, HandlerQuery, 1)

\* The listings of a sequence whose condition is exactly new or certified.
NewOrCertified(a) == SelectSeq(a, LAMBDA v : v.condition \in {sNew, sCertified})

\* C10: condition=new,certified is a logical OR: the search returns exactly
\* the listings, among those that pass the other filters, whose condition
\* is new or certified, in the in-memory search and in GET /search.
C10_ConditionListIsOr ==
    /\ (InMemorySearch /\ call.filters.condition = Some(sNewCertified)) =>
        /\ ApplyFilters(vehicleDatabase, call.filters) =
             NewOrCertified(ApplyFilters(vehicleDatabase,
                                         [call.filters EXCEPT !.condition = None]))
        /\ ret.pagination.totalResults =
             Len(NewOrCertified(ApplyFilters(vehicleDatabase,
                                    [call.filters EXCEPT !.condition = None])))
    /\ (PersistedSearch /\ HandlerQuery.condition = Some(sNewCertified)) =>
        /\ Find(vehicleCollection, BuildFilters(HandlerQuery)) =
             NewOrCertified(Find(vehicleCollection,
                    BuildFilters([HandlerQuery EXCEPT !.condition = None])))
        /\ ret.body.total =
             Len(NewOrCertified(Find(vehicleCollection,
                    BuildFilters([HandlerQuery EXCEPT !.condition = None]))))

\* m occurs in s as a contiguous run of characters, letter case set aside.
ContainsIgnoringCase(s, m) ==
    \E k \in 0..(Len(s) - Len(m)) :
        \A i \in 1..Len(m) : LowerChar(s[k + i]) = LowerChar(m[i])

\* The listings of a sequence whose make contains one of the values.
MakeContainsOneOf(a, values) ==
    SelectSeq(a, LAMBDA v :
        \E i \in 1..Len(values) : ContainsIgnoringCase(v.make, values[i]))

FieldContainsOneOf(a, field, values) ==
    SelectSeq(a, LAMBDA v :
        \E i \in 1..Len(values) : ContainsIgnoringCase(v[field], values[i]))

\* C12: a search by bodyType, fuelType or transmission alone returns exactly
\* the listings whose stored value contains the filter value ignoring letter
\* case, in the in-memory search and in GET /search (there: one of the
\* comma-separated values, among the active listings).
C12_FieldsMatchBySubstring ==
    \A f \in {"bodyType", "fuelType", "transmission"} :
        /\ (InMemorySearch /\ PresentCriteria(SearchFields, call.filters) = {f}) =>
            /\ SetOf(ret.vehicles) =
                 SetOf(FieldContainsOneOf(vehicleDatabase, f, <<Val(call.filters[f])>>))
            /\ ret.pagination.totalResults =
                 Len(FieldContainsOneOf(vehicleDatabase, f, <<Val(call.filters[f])>>))
        /\ (PersistedSearch /\ PresentCriteria(QueryFields, call.query) = {f}) =>
            /\ SetOf(ret.body.vehicles) =
                 SetOf(FieldContainsOneOf(
                        SelectSeq(vehicleCollection, LAMBDA d : d.isActive),
                        f, split(Val(call.query[f]), ",")))
            /\ ret.body.total = Len(ret.body.vehicles)

\* The ranged attributes with the names of their bounds in SearchFilters and
\* in the query string of GET /search ("" where there is no such bound).
RangedAttributes ==
    {[attribute |-> "price", min |-> "minPrice", max |-> "maxPrice",
      qmin |-> "priceMin", qmax |-> "priceMax"],
     [attribute |-> "year", min |-> "minYear", max |-> "maxYear",
      qmin |-> "yearMin", qmax |-> "yearMax"],
     [attribute |-> "mileage", min |-> "", max |-> "maxMileage",
      qmin |-> "", qmax |-> "mileageMax"]}

\* The bound a bag gives under a name, as an optional number.
BoundOf(bag, name) == IF name = "" THEN None ELSE bag[name]
QueryBoundOf(q, name) ==
    IF name = "" \/ ~IsSome(q[name]) THEN None ELSE Some(parseInt(Val(q[name])))

\* lo <= x and x <= hi, for the bounds that are present.
WithinBounds(x, lo, hi) ==
    /\ IsSome(lo) => Val(lo) <= x
    /\ IsSome(hi) => x <= Val(hi)

\* C13: a search by the bounds of one numeric attribute alone returns exactly
\* the listings with lo <= value and value <= hi for the bounds given, a
\* listing exactly at a bound included. In the in-memory search a bound is
\* given when it is present and not zero; in GET /search when it is present.
C13_RangeBoundsInclusive ==
    \A r \in RangedAttributes :
        /\ ( /\ InMemorySearch
             /\ PresentCriteria(SearchFields, call.filters) # {}
             /\ PresentCriteria(SearchFields, call.filters) \subseteq {r.min, r.max}
             /\ \A n \in PresentCriteria(SearchFields, call.filters) :
                    Val(call.filters[n]) # 0 ) =>
            /\ SetOf(ret.vehicles) =
                 {v \in SetOf(vehicleDatabase) :
                    WithinBounds(v[r.attribute], BoundOf(call.filters, r.min),
                                 BoundOf(call.filters, r.max))}
            /\ ret.pagination.totalResults = Len(ret.vehicles)
        /\ ( /\ PersistedSearch
             /\ PresentCriteria(QueryFields, call.query) # {}
             /\ PresentCriteria(QueryFields, call.query) \subseteq {r.qmin, r.qmax} ) =>
            /\ SetOf(ret.body.vehicles) =
                 {d \in SetOf(vehicleCollection) :
                    /\ d.isActive
                    /\ WithinBounds(d[r.attribute], QueryBoundOf(HandlerQuery, r.qmin),
                                    QueryBoundOf(HandlerQuery, r.qmax))}
            /\ ret.body.total = Len(ret.body.vehicles)

\* A search with minPrice = maxPrice = 25000 returns the two listings priced
\* exactly 25000 and leaves a third listing out.
C13_Witness ==
    /\ InMemorySearch
    /\ PresentCriteria(SearchFields, call.filters) = {"minPrice", "maxPrice"}
    /\ call.filters.minPrice = Some(25000)
    /\ call.filters.maxPrice = Some(25000)
    /\ Len(ret.vehicles) = 2
    /\ Len(vehicleDatabase) = 3

\* C14: a range bound equal to 0 means no constraint: the search returns
\* what the same search returns with that bound absent, in the in-memory
\* search and in GET /search.
C14_ZeroBoundIsNoBound ==
    /\ \A n \in {"minPrice", "maxPrice", "minYear", "maxYear", "maxMileage"} :
        (InMemorySearch /\ call.filters[n] = Some(0)) =>
            /\ ret.vehicles =
                 searchVehicles(vehicleDatabase,
                                [call.filters EXCEPT ![n] = None]).vehicles
            /\ ret.pagination =
                 searchVehicles(vehicleDatabase,
                                [call.filters EXCEPT ![n] = None]).pagination
    /\ \A n \in {"priceMin", "priceMax", "yearMin", "yearMax", "mileageMax"} :
        ( /\ PersistedSearch
          /\ IsSome(HandlerQuery[n])
          /\ parseInt(Val(HandlerQuery[n])) = 0 ) =>
            /\ ret.body.vehicles =
                 SearchResponse(vehicleCollection,
                                [HandlerQuery EXCEPT ![n] = None]).vehicles
            /\ ret.body.total =
                 SearchResponse(vehicleCollection,
                                [HandlerQuery EXCEPT ![n] = None]).total

\* The sort keys the in-memory engine knows.
KnownSortKeys == {"price", "year", "mileage", "arbitrageScore"}

\* a comes no later than b in the order (key k, direction order).
NoLater(a, b, k, order) ==
    IF order = "asc" THEN SortValue(a, k) <= SortValue(b, k)
    ELSE SortValue(a, k) >= SortValue(b, k)

\* The sequence is in non-decreasing (asc) or non-increasing (desc) order of k.
OrderedBy(a, k, order) ==
    \A i, j \in 1..Len(a) : i < j => NoLater(a[i], a[j], k, order)

\* C15: with sortBy = k and sortOrder given, the vehicles of a page are in
\* non-decreasing order of k for asc and non-increasing for desc, and the
\* first page holds min(limit, matches) listings, none of which comes later
\* in that order than a matching listing left out.
C15_SortedPageOrderedAndMinimal ==
    ( /\ InMemorySearch
      /\ IsSome(call.filters.sortBy)
      /\ Val(call.filters.sortBy) \in KnownSortKeys
      /\ IsSome(call.filters.sortOrder) ) =>
        LET k == Val(call.filters.sortBy)
            order == Val(call.filters.sortOrder)
            matches == SetOf(ApplyFilters(vehicleDatabase, call.filters))
        IN  /\ OrderedBy(ret.vehicles, k, order)
            /\ SetOf(ret.vehicles) \subseteq matches
            /\ PageOf(call.filters) = 1 =>
                /\ Len(ret.vehicles) =
                     Min2(LimitOf(call.filters), Cardinality(matches))
                /\ Cardinality(SetOf(ret.vehicles)) = Len(ret.vehicles)
                /\ \A v \in SetOf(ret.vehicles) :
                     \A w \in matches \ SetOf(ret.vehicles) : NoLater(v, w, k, order)

\* sortBy = price, asc, limit = 2 over three listings stored with the most
\* expensive first: the page holds the two cheaper ones, cheapest first.
C15_Witness ==
    /\ InMemorySearch
    /\ call.filters.sortBy = Some("price")
    /\ call.filters.sortOrder = Some("asc")
    /\ call.filters.limit = Some(2)
    /\ Len(vehicleDatabase) = 3
    /\ Len(ret.vehicles) = 2
    /\ ret.vehicles[1].price < ret.vehicles[2].price
    /\ vehicleDatabase[1].price > ret.vehicles[2].price

\* The documents are in non-decreasing (asc) or non-increasing (desc) order
\* of a field.
DocsOrderedBy(docs, field, order) ==
    \A i, j \in 1..Len(docs) : i < j =>
        IF order = "asc" THEN docs[i][field] <= docs[j][field]
        ELSE docs[i][field] >= docs[j][field]

\* C16: a search whose sort key is omitted or unknown sorts by the default
\* key (arbitrageScore in the in-memory search, createdAt in GET /search and
\* in its handler called with a key outside its switch), and a search whose
\* direction is omitted sorts descending.
C16_DefaultSortKeyAndDirection ==
    /\ ( /\ InMemorySearch
         /\ \/ ~IsSome(call.filters.sortBy)
            \/ Val(call.filters.sortBy) \notin KnownSortKeys ) =>
        /\ OrderedBy(ret.vehicles, "arbitrageScore", SortOrderOf(call.filters))
        /\ ret = searchVehicles(vehicleDatabase,
                    [call.filters EXCEPT !.sortBy = Some("arbitrageScore")])
    /\ (InMemorySearch /\ ~IsSome(call.filters.sortOrder)) =>
        /\ OrderedBy(ret.vehicles, SortByOf(call.filters), "desc")
        /\ ret = searchVehicles(vehicleDatabase,
                    [call.filters EXCEPT !.sortOrder = Some("desc")])
    /\ (PersistedSearch /\ ~IsSome(call.query.sortBy)) =>
        /\ DocsOrderedBy(ret.body.vehicles, "createdAt", QuerySortOrder(HandlerQuery))
        /\ ret.body.vehicles =
             SearchResponse(vehicleCollection,
                [HandlerQuery EXCEPT !.sortBy = Some("createdAt")]).vehicles
    /\ (PersistedSearch /\ ~IsSome(call.query.sortOrder)) =>
        /\ DocsOrderedBy(ret.body.vehicles,
                SortOptions(QuerySortBy(HandlerQuery), "desc")[1][1], "desc")
        /\ ret.body.vehicles =
             SearchResponse(vehicleCollection,
                [HandlerQuery EXCEPT !.sortOrder = Some("desc")]).vehicles
    /\ PersistedSearch =>
        DocsOrderedBy(SearchResponse(vehicleCollection,
                        [HandlerQuery EXCEPT !.sortBy = Some("score")]).vehicles,
                      "createdAt", "desc")

\* A search with neither sortBy nor sortOrder over three listings stored with
\* a lower score before a higher one returns them by descending score.
C16_Witness ==
    /\ InMemorySearch
    /\ ~IsSome(call.filters.sortBy)
    /\ ~IsSome(call.filters.sortOrder)
    /\ Len(vehicleDatabase) = 3
    /\ Len(ret.vehicles) = 3
    /\ vehicleDatabase[1].arbitrageScore < vehicleDatabase[2].arbitrageScore
    /\ ret.vehicles[1].arbitrageScore > ret.vehicles[2].arbitrageScore
    /\ ret.vehicles[2].arbitrageScore > ret.vehicles[3].arbitrageScore

\* The sequence read from its end.
Reverse(a) == [i \in 1..Len(a) |-> a[Len(a) + 1 - i]]

\* No two listings of the sequence have the same value of the sort key.
DistinctOn(a, k) ==
    \A i, j \in 1..Len(a) : i # j => SortValue(a[i], k) # SortValue(a[j], k)

\* The other direction.
Opposite(order) == IF order = "asc" THEN "desc" ELSE "asc"

\* C17: when no two listings that pass the filters have the same value of
\* the sort key, the full sequence sorted descending is the reverse of the
\* full sequence sorted ascending; a search that returns its whole result on
\* one page returns the reverse of what the other direction returns.
C17_DescendingIsReverseOfAscending ==
    ( /\ InMemorySearch
      /\ DistinctOn(ApplyFilters(vehicleDatabase, call.filters),
                    SortByOf(call.filters)) ) =>
        /\ SortedResults(vehicleDatabase,
                [call.filters EXCEPT !.sortOrder = Some("desc")]) =
             Reverse(SortedResults(vehicleDatabase,
                [call.filters EXCEPT !.sortOrder = Some("asc")]))
        /\ (~IsSome(call.filters.page) /\ ~IsSome(call.filters.limit)) =>
             ret.vehicles =
                Reverse(searchVehicles(vehicleDatabase,
                    [call.filters EXCEPT
                        !.sortOrder = Some(Opposite(SortOrderOf(call.filters)))]).vehicles)

\* A descending sort by price over three listings of three prices.
C17_Witness ==
    /\ InMemorySearch
    /\ call.filters.sortBy = Some("price")
    /\ call.filters.sortOrder = Some("desc")
    /\ ~IsSome(call.filters.limit)
    /\ Len(ret.vehicles) = 3
    /\ DistinctOn(ret.vehicles, "price")
    /\ vehicleDatabase # ret.vehicles

\* The last operation was a GET /filters that was answered with 200.
FilterOptionsResponse == call.op = "GET /filters" /\ ret.status = 200

\* The faceted fields of a facet summary.
FacetedFields == {"makes", "models", "bodyTypes", "fuelTypes", "transmissions"}

\* The occurrence counts of a facet's values, summed.
RECURSIVE SumOfCounts(_)
SumOfCounts(facet) ==
    IF facet = <<>> THEN 0 ELSE Head(facet).count + SumOfCounts(Tail(facet))

\* C18: in a facet summary every faceted field is there and the counts of
\* its values sum to the number of listings the summary is computed over:
\* the matching listings for the facets of GET /search, the collection for
\* the global filter options of GET /filters.
C18_FacetCountsSumToCollection ==
    /\ PersistedSearch =>
        \A f \in FacetedFields :
            /\ f \in DOMAIN ret.body.filters
            /\ SumOfCounts(ret.body.filters[f]) = ret.body.total
    /\ FilterOptionsResponse =>
        \A f \in FacetedFields :
            /\ f \in DOMAIN ret.body
            /\ SumOfCounts(ret.body[f]) = Len(vehicleCollection)

\* A GET /search was answered with 200 and every aggregate had returned.
FullSearchResponse ==
    /\ call.op = "GET /search"
    /\ ret # None
    /\ ret.status = 200
    /\ ~call.aggregateFailed

\* C19: the vehicles, the total and the facets of one response of
\* GET /search describe one snapshot of the collection, whatever writes the
\* store takes during the request: the counts of every facet sum to the
\* total, and the page holds as many vehicles as a page of that total does.
C19_ResponseDescribesOneSnapshot ==
    FullSearchResponse =>
        /\ \A f \in FacetedFields :
             SumOfCounts(ret.body.filters[f]) = ret.body.total
        /\ Len(ret.body.vehicles) =
             Min2(ret.body.limit,
                  Max2(ret.body.total - Skip(ret.body.page, ret.body.limit), 0))

\* Every value list of a facet summary is empty.
NoFacetValues(summary, fields) == \A f \in fields : summary[f] = <<>>

\* C20: over an empty collection the operations return a complete facet
\* summary: every value list is there and empty, and the price and year
\* ranges are pairs with min <= max (no operation reports an undefined
\* range), for the in-memory searchVehicles, GET /search and GET /filters.
C20_EmptyCollectionFacets ==
    /\ (InMemorySearch /\ vehicleDatabase = <<>>) =>
        /\ NoFacetValues(ret.filters,
                {"makes", "models", "bodyTypes", "conditions", "fuelTypes",
                 "transmissions"})
        /\ NumberLeq(ret.filters.priceRange.min, ret.filters.priceRange.max)
        /\ NumberLeq(ret.filters.yearRange.min, ret.filters.yearRange.max)
    /\ (PersistedSearch /\ vehicleCollection = <<>>) =>
        /\ NoFacetValues(ret.body.filters, FacetedFields)
        /\ ret.body.filters.priceRange.min <= ret.body.filters.priceRange.max
        /\ ret.body.filters.yearRange.min <= ret.body.filters.yearRange.max
    /\ (FilterOptionsResponse /\ vehicleCollection = <<>>) =>
        /\ NoFacetValues(ret.body,
                {"makes", "bodyTypes", "fuelTypes", "transmissions"})
        /\ ret.body.priceRange.min <= ret.body.priceRange.max
        /\ ret.body.yearRange.min <= ret.body.yearRange.max

\* The last operation was the in-memory getSearchSuggestions.
InMemorySuggestions == call.op = "getSearchSuggestions"

\* The last operation was a GET /suggestions that was answered with 200.
PersistedSuggestions == call.op = "GET /suggestions" /\ ret.status = 200

\* Where the query first occurs in the label of a suggestion, ignoring case.
FirstMatch(suggestion, query) ==
    CHOOSE k \in -1..Len(suggestion.label) :
        /\ k >= 0 =>
            /\ k + Len(query) <= Len(suggestion.label)
            /\ \A i \in 1..Len(query) :
                    LowerChar(suggestion.label[k + i]) = LowerChar(query[i])
            /\ \A j \in 0..(k - 1) : \E i \in 1..Len(query) :
                    LowerChar(suggestion.label[j + i]) # LowerChar(query[i])
        /\ k = -1 => ~ContainsIgnoringCase(suggestion.label, query)

\* The value or the label of every entry contains the query ignoring case.
AllMatch(list, query) ==
    \A i \in 1..Len(list) :
        \/ ContainsIgnoringCase(list[i].value, query)
        \/ ContainsIgnoringCase(list[i].label, query)

\* Earlier first matches come first; among equal positions, larger counts.
RankedByMatchThenCount(list, query) ==
    \A i, j \in 1..Len(list) : i < j =>
        \/ FirstMatch(list[i], query) < FirstMatch(list[j], query)
        \/ /\ FirstMatch(list[i], query) = FirstMatch(list[j], query)
           /\ list[i].count >= list[j].count

\* C21: the list returned by getSearchSuggestions (in memory, and by
\* GET /suggestions) holds only entries whose value or label contains the
\* query ignoring case, is ordered by the position of the first match
\* ascending and, at equal positions, by count descending, and has at most
\* 8 entries.
C21_SuggestionsRankedAndCapped ==
    /\ (InMemorySuggestions /\ TruthyStr(call.query)) =>
        /\ AllMatch(ret, Val(call.query))
        /\ RankedByMatchThenCount(ret, Val(call.query))
        /\ Len(ret) <= 8
    /\ (PersistedSuggestions /\ IsSome(call.matched)) =>
        /\ AllMatch(ret.body, Val(call.matched))
        /\ RankedByMatchThenCount(ret.body, Val(call.matched))
        /\ Len(ret.body) <= 8

\* The query of a suggestion request has fewer than 2 characters.
ShortQuery(q) == ~IsSome(q) \/ Len(Val(q)) < 2

\* C22: for a query of fewer than 2 characters (missing, empty, one
\* character) getSearchSuggestions returns an empty list, and the suggestion
\* source is never matched with a pattern shorter than 2 characters.
C22_ShortQueryGivesNoSuggestions ==
    /\ (InMemorySuggestions /\ ShortQuery(call.query)) => ret = <<>>
    /\ (InMemorySuggestions /\ ret # <<>>) => Len(Val(call.query)) >= 2
    /\ \A q \in SuggestionQueries :
            ShortQuery(q) => SuggestionResponses(vehicleCollection, q) = {<<>>}
    /\ call.op = "GET /suggestions" =>
        /\ IsSome(call.matched) => Len(Val(call.matched)) >= 2
        /\ ShortQuery(SanitizeSuggestionQuery(call.q)) =>
            /\ call.matched = None
            /\ ret.status = 200 => ret.body = <<>>

\* A one-character query was answered with the empty list.
C22_Witness ==
    /\ InMemorySuggestions
    /\ call.query = Some(<<"t">>)
    /\ ret = <<>>
    /\ Len(searchSuggestionsDatabase) > 0

\* C23: after a logout that was given a token that has not expired, the
\* cache holds blacklist_<token> and its time to live is what was left of
\* the token's lifetime at the logout; a token that has expired is not stored.
C23_LogoutBlacklistsToken ==
    (response.op = "logout" /\ response.status = 200 /\ IsSome(response.token)) =>
        IF Val(response.token).exp > response.at
        THEN /\ RedisGet(redis.blacklist, Val(response.token), now) = Some("true")
             /\ RedisTtl(redis.blacklist, Val(response.token), now)
                    = Val(response.token).exp - response.at
        ELSE \A e \in redis.blacklist : e.id # Val(response.token)

\* A token was blacklisted some time after it was issued.
C23_Witness ==
    /\ response.op = "logout"
    /\ response.status = 200
    /\ IsSome(response.token)
    /\ Val(response.token).iat < response.at
    /\ Val(response.token).exp > response.at
    /\ RedisTtl(redis.blacklist, Val(response.token), now) > 0

\* The step is the answer to a request for `op`.
Answers(op) == Quiet /\ response'.op = op

\* C24: a refreshToken request succeeds only if the token it presents is the
\* one stored in the cache for its user, which is the refresh token issued
\* last for that user; every other request is answered 401 and changes
\* neither the cache nor the accounts.
C24_RefreshTokensRotate ==
    [][Answers("refreshToken") =>
        /\ response'.status \in {200, 401}
        /\ response'.status = 200 =>
            /\ IsSome(response'.token)
            /\ RedisGet(redis.refresh, Val(response'.token).userId, now)
                    = response'.token
            /\ \A t \in tokens :
                    (t.kind = "refresh" /\ t.userId = Val(response'.token).userId)
                        => t.iat <= Val(response'.token).iat
        /\ response'.status = 401 => UNCHANGED <<users, redis, tokens>>]_vars

\* A refresh token that was replaced by a later one was presented and
\* answered 401.
C24_Witness ==
    /\ response.op = "refreshToken"
    /\ response.status = 401
    /\ IsSome(response.token)
    /\ verifyRefreshToken(Val(response.token), now)
    /\ \E e \in redis.refresh :
            /\ e.id = Val(response.token).userId
            /\ e.expireAt > now
            /\ e.value.iat > Val(response.token).iat

\* C25: of two refreshToken requests that present the same token, at most
\* one is answered 200.
C25_AtMostOneRefreshSucceeds ==
    \A c1, c2 \in Clients :
        (/\ c1 # c2
         /\ inflight[c1].op = "refreshToken" /\ inflight[c1].pc = "done"
         /\ inflight[c2].op = "refreshToken" /\ inflight[c2].pc = "done"
         /\ inflight[c1].token = inflight[c2].token)
            => ~(inflight[c1].status = 200 /\ inflight[c2].status = 200)

\* C26: from a completed logout to the next login of its user, the cache
\* holds no refresh token for that user and no refreshToken request of that
\* user is answered 200, not even one that was in progress at the logout.
C26_LogoutEndsRefreshing ==
    [][/\ \A u \in history'.loggedOut : RedisGet(redis'.refresh, u, now') = None
       /\ \A c \in Clients :
            (inflight[c].op = "refreshToken" /\ inflight[c].pc = "setEx"
                /\ inflight'[c].pc = "done")
                => Val(inflight[c].token).userId \notin history.loggedOut]_vars

C28_ForgotPasswordRevealsNothing ==
    /\ ForgotPasswordAnswer(TRUE) = ForgotPasswordAnswer(FALSE)
    /\ (response.op = "forgotPassword" /\ response.fault = "none") =>
        /\ response.status = ForgotPasswordAnswer(TRUE).status
        /\ response.body = ForgotPasswordAnswer(TRUE).body

\* forgotPassword was asked about an email no account has, while another
\* account exists.
C28_Witness ==
    /\ response.op = "forgotPassword"
    /\ response.fault = "none"
    /\ FindByEmail(users, response.email) = {}
    /\ DOMAIN users # {}
    /\ response.status = 200

\* The fields updateProfile does not write.
ProtectedFields == {"password", "email", "role", "isEmailVerified"}

\* C29: updateProfile leaves password, email, role and isEmailVerified of
\* every account as they were, whatever the request body holds; so no
\* sequence of updateProfile calls makes isEmailVerified true.
C29_UpdateProfileKeepsProtectedFields ==
    [][Answers("updateProfile") =>
        /\ DOMAIN users' = DOMAIN users
        /\ \A id \in DOMAIN users : \A f \in ProtectedFields :
                users'[id][f] = users[id][f]]_vars

\* A body with all four protected keys was applied: only firstName changed.
C29_Witness ==
    /\ response.op = "updateProfile"
    /\ response.status = 200
    /\ DOMAIN response.body = ProfileKeys
    /\ users[response.userId].firstName = <<"B", "e", "a">>
    /\ users[response.userId].isEmailVerified = FALSE
    /\ users[response.userId].role # "admin"

====
